---- MODULE Spec2Model ----
(***************************************************************************)
(* Ticket subsystem of the community bot: the ticket registry of           *)
(* functions.py (create_ticket, kill_ticket, cleanup_ghost_tickets,        *)
(* max_tickets) and the interaction handlers of Extensions/Ticket.py that  *)
(* use it (panel button, close control, close command, close prompt,       *)
(* participant add, settings and category commands).                       *)
(*                                                                         *)
(* Every handler is a coroutine on one event loop: the code between two    *)
(* awaits of a transport call that changes modelled state is one action.   *)
(* Interaction acknowledgements, the owner lookup and the log message of   *)
(* the close flow are transport calls that change nothing modelled; they   *)
(* are taken to return.  Time stamps ("Created") are not modelled.         *)
(***************************************************************************)
EXTENDS FiniteSets, Integers, Sequences, TLC

(***************************************************************************)
(* Bounds and input sets                                                   *)
(***************************************************************************)
\* snowflakes the transport hands out (channels and panel messages)
MaxId == 3
\* admin commands (settings, category add / remove, panel setup) per run
MaxAdminOps == 2

Guilds == {"g1", "g2"}
\* the guild whose members and admins are active in a run; the other guild's
\* stored ticket is only touched by the transport and by /ticket-cleanup
ActiveGuilds == {"g1"}
\* members who use ticket controls and commands: alice, bob (who holds the role
\* mod1 / mod2) and the administrator root
Users == {"alice", "bob", "root"}
\* members who press panel buttons
TicketUsers == {"alice"}
\* members who can be added to a ticket
Mentioned == {"bob"}
\* guild_permissions.administrator
Admins == {"root"}
\* role ids are unique across guilds
GuildRoles == [g \in Guilds |-> IF g = "g1" THEN {"mod1"} ELSE {"mod2"}]
\* member.roles
MemberRoles(u, g) == IF u = "bob" THEN GuildRoles[g] ELSE {}
\* coroutines of create_ticket_callback that can be in flight together
Flows == {1, 2}
\* close prompts (ConfirmCloseView) that can be open together
Prompts == {"p1"}
\* values an admin passes as max_tickets to /ticket-settings
MaxTicketsInputs == {0, 1, 2}

(***************************************************************************)
(* Small helpers on finite maps (Python dicts)                             *)
(***************************************************************************)
Put(f, k, v) == [x \in (DOMAIN f) \cup {k} |-> IF x = k THEN v ELSE f[x]]
Drop(f, k) == [x \in (DOMAIN f) \ {k} |-> f[x]]
EmptyMap == [x \in {} |-> x]

(***************************************************************************)
(* Category ids and button identifiers.  An id is a sequence of pieces;    *)
(* the piece "ticket_create_" stands for that literal substring, every     *)
(* other piece for text that contains no part of it.                       *)
(***************************************************************************)
ButtonPrefix == "ticket_create_"
\* custom_id=f"ticket_create_{cat_id}"
CustomId(cat_id) == <<ButtonPrefix>> \o cat_id
\* the same with the prefix stripped once, at the front only
DecodeCategoryFront(custom_id) == Tail(custom_id)
\* custom_id.replace('ticket_create_', ''): every occurrence is removed
DecodeCategory(custom_id) == SelectSeq(custom_id, LAMBDA piece : piece # ButtonPrefix)

\* len(categories) >= 25 refuses /ticket-category-add
MaxCategories == 25
\* ids and names an admin types into the category-add form
NewCategoryIds == {<<"vip">>}
NewCategoryNames == {"VIP"}
\* categories an admin picks in the category-remove selection
RemovedCategoryIds == {<<"vip">>, <<ButtonPrefix, "bug">>}
\* the panel button members press while the limit is examined
QuotaButtons == {CustomId(<<"support">>)}
\* the panel buttons members press while categories change
ClickedButtons == {CustomId(<<"support">>), CustomId(<<"vip">>), CustomId(<<ButtonPrefix, "bug">>)}
\* ids and names two admins type into their forms, and categories they remove
FormCategoryIds == {<<"gold">>, <<"iron">>}
FormCategoryNames == {"Gold", "Au"}
FormRemovedIds == {<<"vip">>, <<"support">>}

(***************************************************************************)
(* TicketConfig: a configuration is [max_tickets_per_user, staff_role_ids, *)
(* categories]; categories is the ordered dict as a sequence of            *)
(* [id, name].                                                             *)
(***************************************************************************)
InitialDefaultConfig ==
    [ max_tickets_per_user |-> 3,
      auto_close_time |-> 24,
      staff_role_ids |-> {},
      log_channel_id |-> <<>>,
      transcript_enabled |-> TRUE,
      categories |-> << [id |-> <<"support">>, name |-> "Support"],
                        [id |-> <<"bug">>, name |-> "Bug Report"],
                        [id |-> <<"feature">>, name |-> "Feature Request"] >> ]

CategoryIds(cats) == {cats[i].id : i \in 1..Len(cats)}
\* config.get(f'categories.{category}'): the category's data, or <<>> for None
GetCategory(cats, cat_id) ==
    IF cat_id \in CategoryIds(cats)
    THEN <<(CHOOSE i \in 1..Len(cats) : cats[i].id = cat_id)>>
    ELSE <<>>
CategoryName(cats, cat_id) == cats[GetCategory(cats, cat_id)[1]].name

\* _merge_config on the categories dict: the default's keys keep their place, a
\* loaded value wins for a key of both, keys only loaded follow in loaded order
MergeCategories(default, loaded) ==
    [i \in 1..Len(default) |->
        IF default[i].id \in CategoryIds(loaded)
        THEN [id |-> default[i].id, name |-> CategoryName(loaded, default[i].id)]
        ELSE default[i]]
    \o SelectSeq(loaded, LAMBDA c : c.id \notin CategoryIds(default))

\* _merge_config(DEFAULT_CONFIG, loaded)
MergeConfig(default, loaded) ==
    [ max_tickets_per_user |-> loaded.max_tickets_per_user,
      auto_close_time |-> loaded.auto_close_time,
      staff_role_ids |-> loaded.staff_role_ids,
      log_channel_id |-> loaded.log_channel_id,
      transcript_enabled |-> loaded.transcript_enabled,
      categories |-> MergeCategories(default.categories, loaded.categories) ]

(***************************************************************************)
(* _merge_config on nested dicts of any shape.  A value is a leaf or a     *)
(* dict from keys to values; a default and a file are dicts.               *)
(***************************************************************************)
Leaf(v) == [dict |-> FALSE, value |-> v]
Dict(items) == [dict |-> TRUE, items |-> items]

\* a variant that takes the loaded value whenever there is one (dict.update);
\* C21 does not hold of it
merge_config_update(default, loaded) ==
    Dict([key \in DOMAIN default.items \cup DOMAIN loaded.items |->
            IF key \in DOMAIN loaded.items
            THEN loaded.items[key]
            ELSE default.items[key]])

\* result = default.copy(); every loaded key replaces the value, or is merged
\* into it when both values are dicts
RECURSIVE _merge_config(_, _)
_merge_config(default, loaded) ==
    Dict([key \in DOMAIN default.items \cup DOMAIN loaded.items |->
            IF key \notin DOMAIN loaded.items
            THEN default.items[key]
            ELSE IF /\ key \in DOMAIN default.items
                    /\ default.items[key].dict
                    /\ loaded.items[key].dict
                 THEN _merge_config(default.items[key], loaded.items[key])
                 ELSE loaded.items[key]])

\* the keys the dicts of each nesting depth are made of: the configuration,
\* its categories, one category, the category's embed
MergeKeys == << {"max_tickets_per_user", "categories"}, {"support"},
                {"name", "embed"}, {"title"} >>
\* dicts with keys among K and values among V
DictsOver(K, V) == UNION {{Dict(items) : items \in [S -> V]} : S \in SUBSET K}
\* every value that can stand at a depth when all leaves are v: a leaf, or a
\* dict of values of the next depth
RECURSIVE ValuesAt(_, _)
ValuesAt(depth, v) ==
    IF depth > Len(MergeKeys)
    THEN {Leaf(v)}
    ELSE {Leaf(v)} \cup DictsOver(MergeKeys[depth], ValuesAt(depth + 1, v))
\* the nested dicts whose leaves are all v
NestedDicts(v) == DictsOver(MergeKeys[1], ValuesAt(2, v))
\* leaves of the default and of a file, so that a merged leaf tells its origin
DefaultLeaf == "default"
StoredLeaf == "stored"

VARIABLES
    DEFAULT_CONFIG, \* TicketConfig.DEFAULT_CONFIG, a class attribute shared by all
    configFiles,      \* data/ticket_configs/guild_<id>.json: guild -> configuration
    tickets,          \* data["tickets"]: guild -> channel -> ticket record
    channels,         \* every channel the transport created: id -> [guild, alive, users, roles]
    nextId,           \* the next snowflake the transport hands out
    panels,           \* PanelManager.panels: guild -> [channel_id, message_id]
    panelButtons,     \* custom ids on posted panel messages, per guild
    controlViews,     \* TicketControlView bound to a ticket's control message
    flows,            \* create_ticket_callback coroutines
    prompts,          \* ConfirmCloseView prompts and confirm_close coroutines
    dialogs,          \* the category forms and delete confirmations admins have open
    adminOps,         \* admin commands issued so far
    raced,            \* <<member, guild>> that had two create flows in flight together
    lowered,          \* guilds whose max_tickets_per_user was ever lowered
    adds,             \* _handle_user_add_response coroutines
    merging,          \* a configuration file, the default and what load_config made of them
    response          \* what the last transcript, refresh or auto-close run answered

vars == << DEFAULT_CONFIG, configFiles, tickets, channels, nextId, panels,
           panelButtons, controlViews, flows, prompts, dialogs, adminOps,
           raced, lowered, adds, merging, response >>

(***************************************************************************)
(* TicketConfig.__init__ / load_config / save_config                       *)
(***************************************************************************)
\* a file json.load or _merge_config cannot read
Malformed == [malformed |-> TRUE]
\* the guild has a file that loads
Readable(files, g) == g \in DOMAIN files /\ files[g] # Malformed
\* TicketConfig(guild_id).config: the merged file, or the default on first
\* access and when the file does not load
LoadConfig(files, g) ==
    IF Readable(files, g)
    THEN MergeConfig(DEFAULT_CONFIG, files[g])
    ELSE DEFAULT_CONFIG
\* the files once TicketConfig(guild_id) was constructed: the default is persisted
FilesAfterLoad(files, g) ==
    IF Readable(files, g) THEN files ELSE Put(files, g, DEFAULT_CONFIG)
\* config.set(key, value) ends in save_config(): the whole structure is rewritten
SaveConfig(files, g, config) == Put(files, g, config)

\* the same on nested dicts.  A file is a dict, or Malformed, or NoFile.
NoFile == [exists |-> FALSE]
ReadableFile(file) == file # NoFile /\ file # Malformed
\* a variant of the encoder that writes no nested dict; C22 does not hold of it
JsonFileFlat(value) ==
    Dict([key \in {k \in DOMAIN value.items : ~value.items[k].dict} |-> value.items[key]])
\* what json.load reads from the file json.dump wrote: dicts with string keys
\* and their leaves come back as they were
RECURSIVE JsonFile(_)
JsonFile(value) ==
    IF value.dict
    THEN Dict([key \in DOMAIN value.items |-> JsonFile(value.items[key])])
    ELSE Leaf(value.value)
\* load_config: the file merged into the default, or the default
load_config(default, file) ==
    IF ReadableFile(file) THEN _merge_config(default, file) ELSE default
\* the file load_config leaves: save_config(self.DEFAULT_CONFIG) when none loads
FileAfterLoad(default, file) ==
    IF ReadableFile(file) THEN file ELSE JsonFile(default)

\* TicketConfig(guild_id) on the file that is followed
LoadConfigFile ==
    /\ merging.pc \in {"new", "saved"}
    /\ merging' = [merging EXCEPT
                      !.pc = IF merging.pc = "new" THEN "loaded" ELSE "reloaded",
                      !.config = load_config(merging.default, merging.file),
                      !.first = IF merging.pc = "new"
                                THEN load_config(merging.default, merging.file)
                                ELSE @,
                      !.file = FileAfterLoad(merging.default, merging.file)]
    /\ UNCHANGED << DEFAULT_CONFIG, configFiles, tickets, channels, nextId, panels,
                    panelButtons, controlViews, flows, prompts, dialogs, adminOps,
                    raced, lowered, adds, response >>

\* save_config() of what was loaded
SaveConfigFile ==
    /\ merging.pc = "loaded"
    /\ merging' = [merging EXCEPT !.pc = "saved", !.file = JsonFile(merging.config)]
    /\ UNCHANGED << DEFAULT_CONFIG, configFiles, tickets, channels, nextId, panels,
                    panelButtons, controlViews, flows, prompts, dialogs, adminOps,
                    raced, lowered, adds, response >>

(***************************************************************************)
(* functions.py: the ticket registry                                       *)
(***************************************************************************)
NoMessage == <<>>
ControlMessageId(ch) == <<"message", ch>>
FallbackMaxTickets == 3

GuildTickets(tk, g) == IF g \in DOMAIN tk THEN tk[g] ELSE EmptyMap

is_ticket(tk, ch, g) == g \in DOMAIN tk /\ ch \in DOMAIN tk[g]

\* a variant that records a control message with the entry; C18 does not
\* hold of it
create_ticket_with_message(tk, ch, owner_id, g, reason) ==
    Put(tk, g, Put(GuildTickets(tk, g), ch,
                   [Owner_ID |-> owner_id, Type |-> reason,
                    control_message_id |-> ControlMessageId(ch)]))

create_ticket(tk, ch, owner_id, g, reason) ==
    Put(tk, g, Put(GuildTickets(tk, g), ch,
                   [Owner_ID |-> owner_id, Type |-> reason,
                    control_message_id |-> NoMessage]))

\* a variant that drops the guild's whole dict; C10 does not hold of it
kill_ticket_guild(tk, ch, g) ==
    IF is_ticket(tk, ch, g) THEN Put(tk, g, EmptyMap) ELSE tk

kill_ticket(tk, ch, g) ==
    IF is_ticket(tk, ch, g) THEN Put(tk, g, Drop(tk[g], ch)) ELSE tk

\* a variant that makes the record a channel lacks; C39 does not hold of it
add_control_message_to_ticket_upsert(tk, ch, g, message_id) ==
    Put(tk, g, Put(GuildTickets(tk, g), ch,
                   [Owner_ID |-> "", Type |-> "",
                    control_message_id |-> message_id]))

add_control_message_to_ticket(tk, ch, g, message_id) ==
    IF is_ticket(tk, ch, g)
    THEN [tk EXCEPT ![g][ch].control_message_id = message_id]
    ELSE tk

ticket_check(tk, user_id, ch, g) ==
    is_ticket(tk, ch, g) /\ tk[g][ch].Owner_ID = user_id

\* guild.get_channel(int(channel_id))
GetChannel(chans, g, ch) ==
    ch \in DOMAIN chans /\ chans[ch].alive /\ chans[ch].guild = g

\* every order in which the keys S can be visited
Orders(S) == {o \in [1..Cardinality(S) -> S] : \A i, j \in DOMAIN o : i # j => o[i] # o[j]}

\* the keys of a guild's tickets in dict order: create_ticket appends, and ids grow
RECURSIVE Ascending(_)
Ascending(S) ==
    IF S = {} THEN <<>>
    ELSE LET m == CHOOSE x \in S : \A y \in S : x <= y
         IN <<m>> \o Ascending(S \ {m})

\* first loop of cleanup_ghost_tickets: tickets_to_remove, in visiting order
RECURSIVE GhostScan(_, _, _)
GhostScan(order, chans, g) ==
    IF order = <<>> THEN <<>>
    ELSE (IF GetChannel(chans, g, Head(order)) THEN <<>> ELSE <<Head(order)>>)
         \o GhostScan(Tail(order), chans, g)

\* second loop of cleanup_ghost_tickets: del data["tickets"][guild][channel_id]
RECURSIVE DeleteAll(_, _)
DeleteAll(m, to_remove) ==
    IF to_remove = <<>> THEN m
    ELSE DeleteAll(Drop(m, Head(to_remove)), Tail(to_remove))

\* a variant that stops at the first ghost it finds; C3 does not hold of it
CleanupFirstGhost(tk, chans, g, order) ==
    LET found == GhostScan(order, chans, g)
        to_remove == IF found = <<>> THEN <<>> ELSE <<Head(found)>>
    IN [tickets |-> Put(tk, g, DeleteAll(tk[g], to_remove)),
        removed |-> Len(to_remove)]

\* cleanup_ghost_tickets visiting the guild's entries in the given order
CleanupInOrder(tk, chans, g, order) ==
    LET to_remove == GhostScan(order, chans, g)
    IN [tickets |-> Put(tk, g, DeleteAll(tk[g], to_remove)),
        removed |-> Len(to_remove)]

\* a variant that never resolves the guild and so sweeps nothing; C2 does not
\* hold of it
cleanup_ghost_tickets_unresolved(tk, chans, g) ==
    [tickets |-> tk, removed |-> 0]

\* cleanup_ghost_tickets(guild_id, bot), the guild being the interaction's guild
cleanup_ghost_tickets(tk, chans, g) ==
    IF g \notin DOMAIN tk
    THEN [tickets |-> tk, removed |-> 0]
    ELSE CleanupInOrder(tk, chans, g, Ascending(DOMAIN tk[g]))

\* a variant that always answers the fallback; C4 does not hold of it
get_max_tickets_fallback(files, g) == FallbackMaxTickets

\* get_max_tickets_for_guild reads the guild's file itself
get_max_tickets_for_guild(files, g) ==
    IF Readable(files, g) THEN files[g].max_tickets_per_user ELSE FallbackMaxTickets

OwnedBy(m, user_id) == {ch \in DOMAIN m : m[ch].Owner_ID = user_id}

\* a variant with an inclusive comparison; C1 does not hold of it
max_tickets_inclusive(tk, chans, files, user_id, g) ==
    IF g \notin DOMAIN tk
    THEN [allowed |-> TRUE, tickets |-> tk]
    ELSE LET max_allowed == get_max_tickets_for_guild(files, g)
             swept == cleanup_ghost_tickets(tk, chans, g).tickets
             count == Cardinality(OwnedBy(swept[g], user_id))
         IN [allowed |-> count <= max_allowed, tickets |-> swept]

\* max_tickets(user_id, guild_id, bot): the answer and the registry it leaves
max_tickets(tk, chans, files, user_id, g) ==
    IF g \notin DOMAIN tk
    THEN [allowed |-> TRUE, tickets |-> tk]
    ELSE LET max_allowed == get_max_tickets_for_guild(files, g)
             swept == cleanup_ghost_tickets(tk, chans, g).tickets
             count == Cardinality(OwnedBy(swept[g], user_id))
         IN [allowed |-> count < max_allowed, tickets |-> swept]

(***************************************************************************)
(* State after construction.  The bot starts on what earlier runs stored:  *)
(* data.json, the configuration files and the panel registry;              *)
(* restore_persistent_views registers a TicketPanelView with the buttons   *)
(* of the stored categories.                                               *)
(***************************************************************************)
IdleFlow ==
    [pc |-> "idle", user |-> "", guild |-> "", custom_id |-> <<>>, category |-> <<>>,
     name |-> "", staff |-> {}, channel |-> 0]
NoPrompt == [pc |-> "none", user |-> "", guild |-> "", channel |-> 0]
NoDialog == [kind |-> "none", guild |-> "", category |-> <<>>, config |-> InitialDefaultConfig]
\* category forms and delete confirmations that can be open together
Dialogs == {"d1"}
\* add_user coroutines that can wait for a reply together
Adders == {"a1"}
NoAdd ==
    [pc |-> "none", user |-> "", channel |-> 0, user_ids |-> <<>>, added |-> <<>>,
     failed |-> <<>>, reply |-> ""]
\* no transcript, refresh or auto-close run has answered yet
NoResponse == [op |-> "none", user |-> "", at |-> 0, reply |-> ""]
\* no configuration file is being followed through load and save
NoMerge == [pc |-> "none", default |-> <<>>, file |-> <<>>, config |-> <<>>, first |-> <<>>]

\* limits an admin stored for g1 in an earlier run
StoredMaxTickets == {1, 2}
\* g1's stored configuration: two categories were added to the built-in ones
StoredConfig(max) ==
    [InitialDefaultConfig EXCEPT
        !.max_tickets_per_user = max,
        !.categories = @ \o << [id |-> <<"vip">>, name |-> "VIP"],
                               [id |-> <<ButtonPrefix, "bug">>, name |-> "Priority Bug"] >>]
\* snowflakes of the channels earlier runs created
StoredIds == <<1, 2>>
\* g2's stored ticket of bob; its channel was deleted while the bot was down
StoredTicketChannel == StoredIds[1]

\* g1's file is one of configs and ds are the dialogs admins can have open
Start(configs, ds) ==
    /\ DEFAULT_CONFIG = InitialDefaultConfig
    /\ \E config \in configs :
          configFiles = Put(Put(EmptyMap, "g2", InitialDefaultConfig), "g1", config)
    /\ tickets = Put(EmptyMap, "g2", Put(EmptyMap, StoredTicketChannel,
                      [Owner_ID |-> "bob", Type |-> "Support",
                       control_message_id |-> ControlMessageId(StoredTicketChannel)]))
    /\ channels = Put(EmptyMap, StoredTicketChannel,
                      [guild |-> "g2", alive |-> FALSE, users |-> {}, roles |-> {}])
    /\ nextId = StoredTicketChannel + 1
    /\ panels = Put(EmptyMap, "g1", [channel_id |-> "lobby", message_id |-> <<"panel", 0>>])
    /\ panelButtons = [g \in Guilds |->
          IF g = "g1"
          THEN {CustomId(id) : id \in CategoryIds(LoadConfig(configFiles, g).categories)}
          ELSE {}]
    /\ controlViews = EmptyMap
    /\ flows = [f \in Flows |-> IdleFlow]
    /\ prompts = [p \in Prompts |-> NoPrompt]
    /\ dialogs = [d \in ds |-> NoDialog]
    /\ adminOps = 0
    /\ raced = {}
    /\ lowered = {}
    /\ adds = [a \in Adders |-> NoAdd]
    /\ merging = NoMerge
    /\ response = NoResponse

Init == Start({StoredConfig(max) : max \in StoredMaxTickets}, Dialogs)

\* The same with g1 one category below the limit of 25 and two admins at work.
FormDialogs == {"d1", "d2"}
FullConfig ==
    [StoredConfig(2) EXCEPT
        !.categories = @ \o [i \in 1..(MaxCategories - 1 - Len(@)) |->
                                [id |-> <<"extra", ToString(i)>>, name |-> "Extra"]]]
InitForms == Start({FullConfig}, FormDialogs)

\* The same with an open ticket of alice in g1 (channel 2) from an earlier run:
\* restore_persistent_views put a TicketControlView on its control message.
\* The staff roles were stored before the ticket was created.
OpenTicketChannel == StoredIds[2]
StoredStaff == SUBSET GuildRoles["g1"]
StoredOpenTicket ==
    /\ DEFAULT_CONFIG = InitialDefaultConfig
    /\ \E staff \in StoredStaff :
          /\ configFiles = Put(Put(EmptyMap, "g2", InitialDefaultConfig), "g1",
                               [StoredConfig(2) EXCEPT !.staff_role_ids = staff])
          /\ channels = Put(Put(EmptyMap, StoredTicketChannel,
                                [guild |-> "g2", alive |-> FALSE, users |-> {}, roles |-> {}]),
                            OpenTicketChannel,
                            [guild |-> "g1", alive |-> TRUE, users |-> {"alice"},
                             roles |-> staff])
    /\ tickets = Put(Put(EmptyMap, "g2", Put(EmptyMap, StoredTicketChannel,
                      [Owner_ID |-> "bob", Type |-> "Support",
                       control_message_id |-> ControlMessageId(StoredTicketChannel)])),
                     "g1", Put(EmptyMap, OpenTicketChannel,
                      [Owner_ID |-> "alice", Type |-> "Support",
                       control_message_id |-> ControlMessageId(OpenTicketChannel)]))
    /\ nextId = OpenTicketChannel + 1
    /\ panels = Put(EmptyMap, "g1", [channel_id |-> "lobby", message_id |-> <<"panel", 0>>])
    /\ panelButtons = [g \in Guilds |->
          IF g = "g1"
          THEN {CustomId(id) : id \in CategoryIds(LoadConfig(configFiles, g).categories)}
          ELSE {}]
    /\ controlViews = Put(EmptyMap, OpenTicketChannel,
                          [guild_id |-> "g1", category |-> <<"support">>,
                           config |-> LoadConfig(configFiles, "g1")])
    /\ flows = [f \in Flows |-> IdleFlow]
    /\ dialogs = [d \in Dialogs |-> NoDialog]
    /\ adminOps = 0
    /\ raced = {}
    /\ lowered = {}
    /\ adds = [a \in Adders |-> NoAdd]
    /\ merging = NoMerge
    /\ response = NoResponse

InitOpenTicket ==
    /\ StoredOpenTicket
    /\ prompts = [p \in Prompts |-> NoPrompt]

\* the same with room for two close prompts on the ticket at a time
ReentryPrompts == {"p1", "p2"}
InitReentry ==
    /\ StoredOpenTicket
    /\ prompts = [p \in ReentryPrompts |-> NoPrompt]

\* What a start finds before restore_persistent_views has run: panels stored
\* for any of the guilds, a ticket per guild with its recorded control
\* message, its channel still there or deleted while the bot was down; no
\* view is registered yet.
StoredTicket(owner, message_id) ==
    [Owner_ID |-> owner, Type |-> "Support", control_message_id |-> message_id]
StoredChannel(g, alive, owner) ==
    [guild |-> g, alive |-> alive, users |-> IF alive THEN {owner} ELSE {}, roles |-> {}]
Stored(types, configs) ==
    /\ DEFAULT_CONFIG = InitialDefaultConfig
    /\ \E config \in configs :
          configFiles = Put(Put(EmptyMap, "g2", InitialDefaultConfig), "g1", config)
    /\ \E gs \in SUBSET Guilds :
          panels = [g \in gs |-> [channel_id |-> "lobby", message_id |-> <<"panel", 0>>]]
    /\ \E type \in types :
          tickets = Put(Put(EmptyMap, "g2",
                            Put(EmptyMap, StoredTicketChannel,
                                StoredTicket("bob", ControlMessageId(StoredTicketChannel)))),
                        "g1",
                        Put(EmptyMap, OpenTicketChannel,
                            [StoredTicket("alice", ControlMessageId(OpenTicketChannel))
                                EXCEPT !.Type = type]))
    /\ \E a1, a2 \in BOOLEAN :
          channels = Put(Put(EmptyMap, StoredTicketChannel, StoredChannel("g2", a1, "bob")),
                         OpenTicketChannel, StoredChannel("g1", a2, "alice"))
    /\ nextId = OpenTicketChannel + 1
    /\ panelButtons = [g \in Guilds |-> {}]
    /\ controlViews = EmptyMap
    /\ flows = [f \in Flows |-> IdleFlow]
    /\ prompts = [p \in Prompts |-> NoPrompt]
    /\ dialogs = [d \in Dialogs |-> NoDialog]
    /\ adminOps = 0
    /\ raced = {}
    /\ lowered = {}
    /\ adds = [a \in Adders |-> NoAdd]
    /\ merging = NoMerge
    /\ response = NoResponse

InitStored == Stored({"Support"}, {StoredConfig(2)})

\* The same where g1's ticket has the name of a category that is still there,
\* of one that is gone, or of two categories of the same name
InitTyped ==
    Stored({"Support", "VIP", "Gold", "Gone"},
           {StoredConfig(2),
            [StoredConfig(2) EXCEPT
                !.categories = @ \o << [id |-> <<"gold">>, name |-> "Gold"],
                                       [id |-> <<"iron">>, name |-> "Gold"] >>]})

\* Nothing is stored.
Blank ==
    /\ DEFAULT_CONFIG = InitialDefaultConfig
    /\ configFiles = EmptyMap
    /\ tickets = EmptyMap
    /\ channels = EmptyMap
    /\ nextId = StoredTicketChannel
    /\ panels = EmptyMap
    /\ panelButtons = [g \in Guilds |-> {}]
    /\ controlViews = EmptyMap
    /\ flows = [f \in Flows |-> IdleFlow]
    /\ prompts = [p \in Prompts |-> NoPrompt]
    /\ dialogs = [d \in Dialogs |-> NoDialog]
    /\ adminOps = 0
    /\ raced = {}
    /\ lowered = {}
    /\ adds = [a \in Adders |-> NoAdd]
    /\ response = NoResponse

\* A default of any shape and a guild's file: of any shape, unreadable, or absent.
InitMerge ==
    /\ Blank
    /\ \E default \in NestedDicts(DefaultLeaf),
          file \in NestedDicts(StoredLeaf) \cup {Malformed, NoFile} :
          merging = [pc |-> "new", default |-> default, file |-> file,
                     config |-> <<>>, first |-> <<>>]

\* A first start: nothing is stored but configuration files, and each
\* guild's file is absent, unreadable, or as an earlier run wrote it.
InitFresh ==
    /\ DEFAULT_CONFIG = InitialDefaultConfig
    /\ \E stored \in SUBSET Guilds, broken \in SUBSET Guilds :
          configFiles = [g \in stored \cup broken |->
                            IF g \in broken THEN Malformed ELSE StoredConfig(2)]
    /\ tickets = EmptyMap
    /\ channels = EmptyMap
    /\ nextId = StoredTicketChannel
    /\ panels = EmptyMap
    /\ panelButtons = [g \in Guilds |-> {}]
    /\ controlViews = EmptyMap
    /\ flows = [f \in Flows |-> IdleFlow]
    /\ prompts = [p \in Prompts |-> NoPrompt]
    /\ dialogs = [d \in Dialogs |-> NoDialog]
    /\ adminOps = 0
    /\ raced = {}
    /\ lowered = {}
    /\ adds = [a \in Adders |-> NoAdd]
    /\ merging = NoMerge
    /\ response = NoResponse

\* guilds whose limit a write of the configuration files lowers
LoweredBy(files) ==
    lowered \cup {g \in {h \in DOMAIN files : Readable(files, h)} :
                    files[g].max_tickets_per_user
                       < LoadConfig(configFiles, g).max_tickets_per_user}

\* members who can see a ticket channel and so can use its controls and commands
CanSee(u, ch) ==
    /\ ch \in DOMAIN channels
    /\ channels[ch].alive
    /\ \/ u \in Admins
       \/ u \in channels[ch].users
       \/ MemberRoles(u, channels[ch].guild) \cap channels[ch].roles # {}

(***************************************************************************)
(* TicketPanelView.create_ticket_callback                                  *)
(***************************************************************************)
InFlight(fl, u, g) ==
    {f \in Flows : fl[f].pc = "creating" /\ fl[f].user = u /\ fl[f].guild = g}

\* a new coroutine takes the first free slot
FreeFlow(fl) ==
    IF \E f \in Flows : fl[f].pc = "idle"
    THEN CHOOSE f \in Flows : fl[f].pc = "idle" /\ \A e \in Flows : fl[e].pc = "idle" => f <= e
    ELSE 0

\* the click up to "await guild.create_text_channel": quota check, category
\* lookup; a refusal answers the member and ends the callback
CreateTicketClick(f, u, g, custom_id) ==
    /\ f = FreeFlow(flows)
    /\ custom_id \in panelButtons[g]
    /\ LET category == DecodeCategory(custom_id)
           config == LoadConfig(configFiles, g)
           files == FilesAfterLoad(configFiles, g)
           quota == max_tickets(tickets, channels, files, u, g)
       IN /\ configFiles' = files
          /\ tickets' = quota.tickets
          /\ IF ~quota.allowed
             THEN UNCHANGED flows
             ELSE IF GetCategory(config.categories, category) = <<>>
             THEN UNCHANGED flows
             ELSE flows' = [flows EXCEPT ![f] =
                        [pc |-> "creating", user |-> u, guild |-> g,
                         custom_id |-> custom_id, category |-> category,
                         name |-> CategoryName(config.categories, category),
                         staff |-> config.staff_role_ids, channel |-> 0]]
          /\ raced' = IF Cardinality(InFlight(flows', u, g)) > 1
                      THEN raced \cup {<<u, g>>} ELSE raced
    /\ UNCHANGED << DEFAULT_CONFIG, channels, nextId, panels, panelButtons,
                    controlViews, prompts, dialogs, adminOps, lowered, adds, merging, response >>

\* a variant that checks the quota again before it writes; C5 does not hold
\* of it
CreateTicketChannelRechecked(f) ==
    /\ flows[f].pc = "creating"
    /\ nextId <= MaxId
    /\ LET fl == flows[f]
           ch == nextId
       IN /\ channels' = Put(channels, ch,
                [guild |-> fl.guild, alive |-> TRUE, users |-> {fl.user},
                 roles |-> fl.staff \cap GuildRoles[fl.guild]])
          /\ tickets' = IF max_tickets(tickets, channels, configFiles, fl.user,
                                       fl.guild).allowed
                        THEN create_ticket(tickets, ch, fl.user, fl.guild, fl.name)
                        ELSE tickets
          /\ flows' = [flows EXCEPT ![f].pc = "created", ![f].channel = ch]
    /\ nextId' = nextId + 1
    /\ UNCHANGED << DEFAULT_CONFIG, configFiles, panels, panelButtons, controlViews,
                    prompts, dialogs, adminOps, raced, lowered, adds, merging, response >>

\* create_text_channel returned the channel: create_ticket follows with no await
CreateTicketChannel(f) ==
    /\ flows[f].pc = "creating"
    /\ nextId <= MaxId
    /\ LET fl == flows[f]
           ch == nextId
       IN /\ channels' = Put(channels, ch,
                [guild |-> fl.guild, alive |-> TRUE, users |-> {fl.user},
                 roles |-> fl.staff \cap GuildRoles[fl.guild]])
          /\ tickets' = create_ticket(tickets, ch, fl.user, fl.guild, fl.name)
          /\ flows' = [flows EXCEPT ![f].pc = "created", ![f].channel = ch]
    /\ nextId' = nextId + 1
    /\ UNCHANGED << DEFAULT_CONFIG, configFiles, panels, panelButtons, controlViews,
                    prompts, dialogs, adminOps, raced, lowered, adds, merging, response >>

\* a variant that wrote the record before the channel existed; C6 does not
\* hold of it
CreateTicketFailedRecorded(f, error) ==
    /\ flows[f].pc = "creating"
    /\ error \in {"Forbidden", "Exception"}
    /\ tickets' = create_ticket(tickets, nextId, flows[f].user, flows[f].guild,
                                flows[f].name)
    /\ flows' = [flows EXCEPT ![f] = IdleFlow]
    /\ UNCHANGED << DEFAULT_CONFIG, configFiles, channels, nextId, panels, panelButtons,
                    controlViews, prompts, dialogs, adminOps, raced, lowered, adds,
                    merging, response >>

\* create_text_channel raised discord.Forbidden or another exception: the
\* member is told, nothing else happens
CreateTicketFailed(f, error) ==
    /\ flows[f].pc = "creating"
    /\ error \in {"Forbidden", "Exception"}
    /\ flows' = [flows EXCEPT ![f] = IdleFlow]
    /\ UNCHANGED << DEFAULT_CONFIG, configFiles, tickets, channels, nextId, panels,
                    panelButtons, controlViews, prompts, dialogs, adminOps, raced,
                    lowered, adds, merging, response >>

\* after the acknowledgement: TicketControlView(guild, category), the welcome
\* message with the view, add_control_message_to_ticket; a channel deleted
\* meanwhile makes channel.send raise, which ends the callback
CreateTicketWelcome(f) ==
    /\ flows[f].pc = "created"
    /\ LET fl == flows[f]
           config == LoadConfig(configFiles, fl.guild)
       IN /\ configFiles' = FilesAfterLoad(configFiles, fl.guild)
          /\ IF GetChannel(channels, fl.guild, fl.channel)
             THEN /\ controlViews' = Put(controlViews, fl.channel,
                        [guild_id |-> fl.guild, category |-> fl.category,
                         config |-> config])
                  /\ tickets' = add_control_message_to_ticket(
                        tickets, fl.channel, fl.guild, ControlMessageId(fl.channel))
             ELSE UNCHANGED << controlViews, tickets >>
    /\ flows' = [flows EXCEPT ![f] = IdleFlow]
    /\ UNCHANGED << DEFAULT_CONFIG, channels, nextId, panels, panelButtons, prompts,
                    dialogs, adminOps, raced, lowered, adds, merging, response >>

(***************************************************************************)
(* Close flow: TicketControlView.close_ticket, Ticket.close_ticket_slash,  *)
(* ConfirmCloseView                                                        *)
(***************************************************************************)
\* the permission test of the ticket controls, on the view's own TicketConfig
ControlAllowed(u, ch, g, view) ==
    \/ ticket_check(tickets, u, ch, g)
    \/ u \in Admins
    \/ MemberRoles(u, g) \cap view.config.staff_role_ids # {}

\* the close button of a ticket's control message; a member without
\* permission is told so and no prompt opens
CloseTicketButton(p, u, ch) ==
    /\ prompts[p].pc = "none"
    /\ ch \in DOMAIN controlViews
    /\ CanSee(u, ch)
    /\ LET g == channels[ch].guild
       IN IF ControlAllowed(u, ch, g, controlViews[ch])
          THEN /\ prompts' = [prompts EXCEPT ![p] =
                     [pc |-> "open", user |-> u, guild |-> g, channel |-> ch]]
               /\ configFiles' = FilesAfterLoad(configFiles, g)
          ELSE UNCHANGED << prompts, configFiles >>
    /\ UNCHANGED << DEFAULT_CONFIG, tickets, channels, nextId, panels, panelButtons,
                    controlViews, flows, dialogs, adminOps, raced, lowered, adds,
                    merging, response >>

\* /close in a channel of the guild: the prompt opens for whoever asks
CloseTicketSlash(p, u, ch) ==
    /\ prompts[p].pc = "none"
    /\ CanSee(u, ch)
    /\ LET g == channels[ch].guild
       IN /\ configFiles' = FilesAfterLoad(configFiles, g)
          /\ IF ~is_ticket(tickets, ch, g)
             THEN UNCHANGED prompts
             ELSE prompts' = [prompts EXCEPT ![p] =
                        [pc |-> "open", user |-> u, guild |-> g, channel |-> ch]]
    /\ UNCHANGED << DEFAULT_CONFIG, tickets, channels, nextId, panels, panelButtons,
                    controlViews, flows, dialogs, adminOps, raced, lowered, adds,
                    merging, response >>

\* the confirm button up to "await asyncio.sleep(3)": kill_ticket, acknowledgement
ConfirmClose(p) ==
    /\ prompts[p].pc = "open"
    /\ CanSee(prompts[p].user, prompts[p].channel)
    /\ tickets' = kill_ticket(tickets, prompts[p].channel, prompts[p].guild)
    /\ prompts' = [prompts EXCEPT ![p].pc = "closing"]
    /\ UNCHANGED << DEFAULT_CONFIG, configFiles, channels, nextId, panels, panelButtons,
                    controlViews, flows, dialogs, adminOps, raced, lowered, adds,
                    merging, response >>

\* interaction.channel.delete(...) of confirm_close: the transport deletes the
\* channel, or refuses (Forbidden), or no longer knows it (NotFound)
ConfirmCloseDelete(p, outcome) ==
    /\ prompts[p].pc = "closing"
    /\ LET ch == prompts[p].channel
       IN IF channels[ch].alive
          THEN /\ outcome \in {"deleted", "Forbidden"}
               /\ IF outcome = "deleted"
                  THEN /\ channels' = [channels EXCEPT ![ch] =
                             [guild |-> channels[ch].guild, alive |-> FALSE,
                              users |-> {}, roles |-> {}]]
                       /\ controlViews' = Drop(controlViews, ch)
                  ELSE UNCHANGED << channels, controlViews >>
          ELSE /\ outcome = "NotFound"
               /\ UNCHANGED << channels, controlViews >>
    /\ prompts' = [prompts EXCEPT ![p] = NoPrompt]
    /\ UNCHANGED << DEFAULT_CONFIG, configFiles, tickets, nextId, panels, panelButtons,
                    flows, dialogs, adminOps, raced, lowered, adds, merging, response >>

\* a variant whose cancel button removes the entry; C11 does not hold of it
CancelCloseRemoves(p) ==
    /\ prompts[p].pc = "open"
    /\ CanSee(prompts[p].user, prompts[p].channel)
    /\ tickets' = kill_ticket(tickets, prompts[p].channel, prompts[p].guild)
    /\ prompts' = [prompts EXCEPT ![p] = NoPrompt]
    /\ UNCHANGED << DEFAULT_CONFIG, configFiles, channels, nextId, panels, panelButtons,
                    controlViews, flows, dialogs, adminOps, raced, lowered, adds,
                    merging, response >>

\* the cancel button: the prompt is edited away
CancelClose(p) ==
    /\ prompts[p].pc = "open"
    /\ CanSee(prompts[p].user, prompts[p].channel)
    /\ prompts' = [prompts EXCEPT ![p] = NoPrompt]
    /\ UNCHANGED << DEFAULT_CONFIG, configFiles, tickets, channels, nextId, panels,
                    panelButtons, controlViews, flows, dialogs, adminOps, raced, lowered,
                    adds, merging, response >>

\* ConfirmCloseView(timeout=30) expires unanswered
CloseTimeout(p) ==
    /\ prompts[p].pc = "open"
    /\ prompts' = [prompts EXCEPT ![p] = NoPrompt]
    /\ UNCHANGED << DEFAULT_CONFIG, configFiles, tickets, channels, nextId, panels,
                    panelButtons, controlViews, flows, dialogs, adminOps, raced, lowered,
                    adds, merging, response >>

(***************************************************************************)
(* TicketControlView.add_user with one mentioned member                    *)
(***************************************************************************)
AddUser(u, ch, member) ==
    /\ ch \in DOMAIN controlViews
    /\ CanSee(u, ch)
    /\ LET g == channels[ch].guild
       IN IF ControlAllowed(u, ch, g, controlViews[ch])
          THEN channels' = [channels EXCEPT ![ch].users = @ \cup {member}]
          ELSE UNCHANGED channels
    /\ UNCHANGED << DEFAULT_CONFIG, configFiles, tickets, nextId, panels, panelButtons,
                    controlViews, flows, prompts, dialogs, adminOps, raced, lowered,
                    adds, merging, response >>

(***************************************************************************)
(* TicketControlView.add_user and _handle_user_add_response, step by step: *)
(* the click, the wait for the member's message, the parse of its words,   *)
(* one set_permissions per parsed id.  A word is a sequence of characters. *)
(***************************************************************************)
DigitChars == << "0", "1", "2", "3", "4", "5", "6", "7", "8", "9" >>
\* str.isdigit
isdigit(word) ==
    /\ word # <<>>
    /\ \A i \in DOMAIN word : \E d \in DOMAIN DigitChars : DigitChars[d] = word[i]
\* int(...) of a str of digits
RECURSIVE int(_)
int(word) ==
    IF word = <<>>
    THEN 0
    ELSE int(SubSeq(word, 1, Len(word) - 1)) * 10
            + (CHOOSE d \in DOMAIN DigitChars : DigitChars[d] = word[Len(word)]) - 1
\* the for loop over the words: the ids in order without repetition, or
\* ValueError from int(...) at the first mention whose inner part is no number
RECURSIVE parse_user_ids(_, _)
parse_user_ids(words, user_ids) ==
    IF words = <<>>
    THEN [error |-> FALSE, user_ids |-> user_ids]
    ELSE LET word == Head(words)
             \* word.startswith('<@') and word.endswith('>')
             mention == /\ Len(word) >= 2
                        /\ word[1] = "<"
                        /\ word[2] = "@"
                        /\ word[Len(word)] = ">"
             \* word[2:-1].replace('!', '')
             inner == SelectSeq(SubSeq(word, 3, Len(word) - 1), LAMBDA c : c # "!")
         IN IF mention /\ ~isdigit(inner)
            THEN [error |-> TRUE, user_ids |-> user_ids]
            ELSE LET user_id == IF mention THEN int(inner)
                                ELSE IF isdigit(word) THEN int(word)
                                ELSE 0
                     seen == \E i \in DOMAIN user_ids : user_ids[i] = user_id
                 IN parse_user_ids(Tail(words),
                       IF user_id # 0 /\ ~seen THEN Append(user_ids, user_id)
                       ELSE user_ids)
\* interaction.guild.get_member: the member of the id, <<>> for None
MemberIds == [bob |-> 7, root |-> 5]
get_member(user_id) ==
    IF \E u \in DOMAIN MemberIds : MemberIds[u] = user_id
    THEN << CHOOSE u \in DOMAIN MemberIds : MemberIds[u] = user_id >>
    ELSE <<>>

\* the button: a member without permission is told so; otherwise the
\* instruction is sent and the handler waits for the member's message
AddUserClick(a, u, ch) ==
    /\ adds[a].pc = "none"
    /\ ch \in DOMAIN controlViews
    /\ CanSee(u, ch)
    /\ ControlAllowed(u, ch, channels[ch].guild, controlViews[ch])
    /\ adds' = [adds EXCEPT ![a] =
          [NoAdd EXCEPT !.pc = "waiting", !.user = u, !.channel = ch]]
    /\ UNCHANGED << DEFAULT_CONFIG, configFiles, tickets, channels, nextId, panels,
                    panelButtons, controlViews, flows, prompts, dialogs, adminOps,
                    raced, lowered, merging, response >>

\* wait_for raises (TimeoutError after 60 seconds, or anything else): return
AddUserTimeout(a) ==
    /\ adds[a].pc = "waiting"
    /\ adds' = [adds EXCEPT ![a] = [NoAdd EXCEPT !.reply = ""]]
    /\ UNCHANGED << DEFAULT_CONFIG, configFiles, tickets, channels, nextId, panels,
                    panelButtons, controlViews, flows, prompts, dialogs, adminOps,
                    raced, lowered, merging, response >>

\* a variant that sets the permissions of each id as soon as it is parsed;
\* C30 does not hold of it
AddUserReplyEager(a, words) ==
    /\ adds[a].pc = "waiting"
    /\ LET parsed == parse_user_ids(words, <<>>)
           found == {get_member(parsed.user_ids[i]) : i \in DOMAIN parsed.user_ids}
       IN /\ channels' = [channels EXCEPT ![adds[a].channel].users =
                             @ \cup {m[1] : m \in found \ {<<>>}}]
          /\ adds' = [adds EXCEPT ![a] =
                [NoAdd EXCEPT !.reply = IF parsed.error THEN "error" ELSE "added"]]
    /\ UNCHANGED << DEFAULT_CONFIG, configFiles, tickets, nextId, panels,
                    panelButtons, controlViews, flows, prompts, dialogs, adminOps,
                    raced, lowered, merging, response >>

\* the member's message arrives, as the words of its stripped content: none,
\* a ValueError while parsing and an empty list of ids end the handler
AddUserReply(a, words) ==
    /\ adds[a].pc = "waiting"
    /\ LET parsed == parse_user_ids(words, <<>>)
       IN adds' = [adds EXCEPT ![a] =
             IF words = <<>> THEN [NoAdd EXCEPT !.reply = "add_user_no_input"]
             ELSE IF parsed.error THEN [NoAdd EXCEPT !.reply = "error"]
             ELSE IF parsed.user_ids = <<>> THEN [NoAdd EXCEPT !.reply = "add_user_invalid"]
             ELSE [@ EXCEPT !.pc = "granting", !.user_ids = parsed.user_ids]]
    /\ UNCHANGED << DEFAULT_CONFIG, configFiles, tickets, channels, nextId, panels,
                    panelButtons, controlViews, flows, prompts, dialogs, adminOps,
                    raced, lowered, merging, response >>

\* a variant whose loop ends at the first id that fails; C32 does not hold
\* of it
AddUserGrantAborting(a, outcome) ==
    /\ adds[a].pc = "granting"
    /\ LET ch == adds[a].channel
           user_id == adds[a].user_ids[Len(adds[a].added) + Len(adds[a].failed) + 1]
           user == get_member(user_id)
           granted == user # <<>> /\ outcome = "ok"
       IN /\ IF user = <<>> THEN outcome = "none"
             ELSE IF channels[ch].alive THEN outcome \in {"ok", "Forbidden"}
             ELSE outcome = "NotFound"
          /\ channels' = IF granted
                         THEN [channels EXCEPT ![ch].users = @ \cup {user[1]}]
                         ELSE channels
          /\ adds' = [adds EXCEPT ![a] =
                IF granted
                THEN [@ EXCEPT !.added = Append(@, user[1]),
                               !.pc = IF Len(adds[a].added) + Len(adds[a].failed) + 1
                                            = Len(adds[a].user_ids)
                                      THEN "reporting" ELSE "granting"]
                ELSE [@ EXCEPT !.failed = Append(@, [user_id |-> user_id,
                                                      reason |-> "Fehler"]),
                               !.pc = "reporting"]]
    /\ UNCHANGED << DEFAULT_CONFIG, configFiles, tickets, nextId, panels,
                    panelButtons, controlViews, flows, prompts, dialogs, adminOps,
                    raced, lowered, merging, response >>

\* one turn of the loop over user_ids: get_member, then set_permissions,
\* which the transport carries out or refuses (Forbidden, or NotFound once
\* the channel is deleted); the id goes to added_users or to failed_users
AddUserGrant(a, outcome) ==
    /\ adds[a].pc = "granting"
    /\ LET ch == adds[a].channel
           user_id == adds[a].user_ids[Len(adds[a].added) + Len(adds[a].failed) + 1]
           user == get_member(user_id)
           granted == user # <<>> /\ outcome = "ok"
       IN /\ IF user = <<>> THEN outcome = "none"
             ELSE IF channels[ch].alive THEN outcome \in {"ok", "Forbidden"}
             ELSE outcome = "NotFound"
          /\ channels' = IF granted
                         THEN [channels EXCEPT ![ch].users = @ \cup {user[1]}]
                         ELSE channels
          /\ adds' = [adds EXCEPT ![a] =
                [@ EXCEPT !.added = IF granted THEN Append(@, user[1]) ELSE @,
                          !.failed =
                             IF granted THEN @
                             ELSE Append(@, [user_id |-> user_id,
                                             reason |-> IF user = <<>>
                                                        THEN "nicht auf Server"
                                                        ELSE "Fehler"]),
                          !.pc = IF Len(adds[a].added) + Len(adds[a].failed) + 1
                                       = Len(adds[a].user_ids)
                                 THEN "reporting" ELSE "granting"]]
    /\ UNCHANGED << DEFAULT_CONFIG, configFiles, tickets, nextId, panels,
                    panelButtons, controlViews, flows, prompts, dialogs, adminOps,
                    raced, lowered, merging, response >>

\* after the loop: the added members are announced in the channel, which
\* raises NotFound once the channel is deleted and leaves the member with the
\* general error message; otherwise the lists are sent to the member
AddUserReport(a) ==
    /\ adds[a].pc = "reporting"
    /\ adds' = [adds EXCEPT ![a] =
          IF adds[a].added # <<>> /\ ~channels[adds[a].channel].alive
          THEN [NoAdd EXCEPT !.reply = "error"]
          ELSE [NoAdd EXCEPT !.reply = "added", !.added = adds[a].added,
                             !.failed = adds[a].failed]]
    /\ UNCHANGED << DEFAULT_CONFIG, configFiles, tickets, channels, nextId, panels,
                    panelButtons, controlViews, flows, prompts, dialogs, adminOps,
                    raced, lowered, merging, response >>

(***************************************************************************)
(* TicketControlView.create_transcript                                     *)
(***************************************************************************)
\* a variant that takes the ticket out of the registry once the transcript
\* is sent; C33 does not hold of it
CreateTranscriptArchiving(u, ch, outcome) ==
    /\ ch \in DOMAIN controlViews
    /\ CanSee(u, ch)
    /\ outcome \in {"sent", "error"}
    /\ tickets' = kill_ticket(tickets, ch, channels[ch].guild)
    /\ response' = [op |-> "create_transcript", user |-> u, at |-> ch, reply |-> outcome]
    /\ UNCHANGED << DEFAULT_CONFIG, configFiles, channels, nextId, panels,
                    panelButtons, controlViews, flows, prompts, dialogs, adminOps,
                    raced, lowered, adds, merging >>

\* the transcript button: refused when the view's configuration has
\* transcripts disabled or the member has no permission; otherwise the
\* channel's history is read and sent as a file, or reading it raises and the
\* member is told so
CreateTranscript(u, ch, outcome) ==
    /\ ch \in DOMAIN controlViews
    /\ CanSee(u, ch)
    /\ outcome \in {"sent", "error"}
    /\ response' =
          [op |-> "create_transcript", user |-> u, at |-> ch,
           reply |-> IF ~controlViews[ch].config.transcript_enabled THEN "disabled"
                     ELSE IF ~ControlAllowed(u, ch, channels[ch].guild, controlViews[ch])
                          THEN "no_permission"
                          ELSE outcome]
    /\ UNCHANGED << DEFAULT_CONFIG, configFiles, tickets, channels, nextId, panels,
                    panelButtons, controlViews, flows, prompts, dialogs, adminOps,
                    raced, lowered, adds, merging >>

(***************************************************************************)
(* The transport: a ticket channel is deleted by hand                      *)
(***************************************************************************)
ExternalDelete(ch) ==
    /\ ch \in DOMAIN channels
    /\ channels[ch].alive
    /\ channels' = [channels EXCEPT ![ch] =
            [guild |-> channels[ch].guild, alive |-> FALSE, users |-> {}, roles |-> {}]]
    /\ controlViews' = Drop(controlViews, ch)
    /\ UNCHANGED << DEFAULT_CONFIG, configFiles, tickets, nextId, panels, panelButtons,
                    flows, prompts, dialogs, adminOps, raced, lowered, adds, merging, response >>

(***************************************************************************)
(* Ticket.cleanup_ghost_tickets_slash                                      *)
(***************************************************************************)
CleanupCommand(u, g) ==
    /\ u \in Admins
    /\ tickets' = cleanup_ghost_tickets(tickets, channels, g).tickets
    /\ UNCHANGED << DEFAULT_CONFIG, configFiles, channels, nextId, panels, panelButtons,
                    controlViews, flows, prompts, dialogs, adminOps, raced, lowered,
                    adds, merging, response >>

(***************************************************************************)
(* Admin commands                                                          *)
(***************************************************************************)
\* the parameters of /ticket-settings, each <<>> when it is not given
NoSettings ==
    [staff_role |-> <<>>, log_channel |-> <<>>, max_tickets |-> <<>>,
     auto_close_hours |-> <<>>, transcripts_enabled |-> <<>>]

\* /ticket-settings: the parameters are applied one after the other, each by
\* a config.set that writes the whole structure.  With auto_close_hours > 0
\* the task is cancelled and started again; start raises RuntimeError while
\* the cancelled task has not ended, and the command ends there.
TicketSettings(u, g, args, restart) ==
    /\ u \in Admins
    /\ adminOps < MaxAdminOps
    /\ adminOps' = adminOps + 1
    /\ restart \in {"started", "RuntimeError"}
    /\ LET first == ~Readable(configFiles, g)
           config == LoadConfig(configFiles, g)
           addRole == /\ args.staff_role # <<>>
                      /\ args.staff_role[1] \notin config.staff_role_ids
           setLog == args.log_channel # <<>>
           setMax == /\ args.max_tickets # <<>>
                     /\ 1 <= args.max_tickets[1]
                     /\ args.max_tickets[1] <= 10
           setAuto == args.auto_close_hours # <<>> /\ args.auto_close_hours[1] >= 0
           raised == setAuto /\ args.auto_close_hours[1] > 0 /\ restart = "RuntimeError"
           setTranscripts == args.transcripts_enabled # <<>> /\ ~raised
           withRole == IF addRole
                       THEN [config EXCEPT !.staff_role_ids = @ \cup {args.staff_role[1]}]
                       ELSE config
           withLog == IF setLog
                      THEN [withRole EXCEPT !.log_channel_id = args.log_channel]
                      ELSE withRole
           withMax == IF setMax
                      THEN [withLog EXCEPT !.max_tickets_per_user = args.max_tickets[1]]
                      ELSE withLog
           withAuto == IF setAuto
                       THEN [withMax EXCEPT !.auto_close_time = args.auto_close_hours[1]]
                       ELSE withMax
           withAll == IF setTranscripts
                      THEN [withAuto EXCEPT
                              !.transcript_enabled = args.transcripts_enabled[1]]
                      ELSE withAuto
           files == IF addRole \/ setLog \/ setMax \/ setAuto \/ setTranscripts
                    THEN SaveConfig(configFiles, g, withAll)
                    ELSE FilesAfterLoad(configFiles, g)
       IN /\ configFiles' = files
          /\ lowered' = LoweredBy(files)
          \* staff_roles.append on the list of a first-time config is an append
          \* to the list inside DEFAULT_CONFIG (load_config returns a shallow copy)
          /\ DEFAULT_CONFIG' = IF first /\ addRole
                               THEN [DEFAULT_CONFIG EXCEPT
                                       !.staff_role_ids = @ \cup {args.staff_role[1]}]
                               ELSE DEFAULT_CONFIG
    /\ UNCHANGED << tickets, channels, nextId, panels, panelButtons, controlViews,
                    flows, prompts, dialogs, raced, adds, merging, response >>

\* /ticket-staff-remove
RemoveStaffRole(u, g, role) ==
    /\ u \in Admins
    /\ adminOps < MaxAdminOps
    /\ adminOps' = adminOps + 1
    /\ LET first == ~Readable(configFiles, g)
           config == LoadConfig(configFiles, g)
       IN IF role \notin config.staff_role_ids
          THEN /\ configFiles' = FilesAfterLoad(configFiles, g)
               /\ UNCHANGED DEFAULT_CONFIG
          ELSE /\ configFiles' = SaveConfig(configFiles, g,
                                    [config EXCEPT !.staff_role_ids = @ \ {role}])
               /\ DEFAULT_CONFIG' = IF first
                                    THEN [DEFAULT_CONFIG EXCEPT !.staff_role_ids = @ \ {role}]
                                    ELSE DEFAULT_CONFIG
    /\ UNCHANGED << tickets, channels, nextId, panels, panelButtons, controlViews,
                    flows, prompts, dialogs, raced, lowered, adds, merging, response >>

\* a variant that builds the buttons from the categories of the default;
\* C37 does not hold of it
create_buttons_default(files, g) ==
    [i \in DOMAIN DEFAULT_CONFIG.categories |-> CustomId(DEFAULT_CONFIG.categories[i].id)]

\* TicketPanelView.create_buttons: TicketConfig(guild_id) is loaded and one
\* button is added per category, in the order of the dict
create_buttons(files, g) ==
    [i \in DOMAIN LoadConfig(files, g).categories |->
        CustomId(LoadConfig(files, g).categories[i].id)]

\* the buttons TicketPanelView(guild_id) is built with
PanelViewButtons(files, g) ==
    {create_buttons(files, g)[i] : i \in DOMAIN create_buttons(files, g)}

\* a variant that keeps the record; C17 does not hold of it
remove_panel_kept(pn, g) == pn

\* PanelManager.remove_panel
remove_panel(pn, g) == IF g \in DOMAIN pn THEN Drop(pn, g) ELSE pn

\* a variant that keeps the record a guild already has; C36 does not hold of
\* it
add_panel_first(pn, g, channel_id, message_id) ==
    IF g \in DOMAIN pn THEN pn
    ELSE Put(pn, g, [channel_id |-> channel_id, message_id |-> message_id])

\* PanelManager.add_panel: self.panels[str(guild_id)] = {...}
add_panel(pn, g, channel_id, message_id) ==
    Put(pn, g, [channel_id |-> channel_id, message_id |-> message_id])

\* PanelManager.get_panel: <<>> for None
get_panel(pn, g) == IF g \in DOMAIN pn THEN <<pn[g]>> ELSE <<>>

\* /ticket-setup: a panel message with TicketPanelView(guild) is posted
SetupPanel(u, g) ==
    /\ u \in Admins
    /\ adminOps < MaxAdminOps
    /\ adminOps' = adminOps + 1
    /\ LET config == LoadConfig(configFiles, g)
       IN /\ configFiles' = FilesAfterLoad(configFiles, g)
          /\ panelButtons' = [panelButtons EXCEPT ![g] =
                @ \cup PanelViewButtons(configFiles, g)]
          /\ panels' = add_panel(panels, g, "lobby", <<"panel", adminOps + 1>>)
    /\ UNCHANGED << DEFAULT_CONFIG, tickets, channels, nextId, controlViews, flows,
                    prompts, dialogs, raced, lowered, adds, merging, response >>

\* /ticket-category-add: the form opens with its own TicketConfig
AddCategory(d, u, g) ==
    /\ u \in Admins
    /\ adminOps < MaxAdminOps
    /\ adminOps' = adminOps + 1
    /\ dialogs[d].kind = "none"
    /\ LET config == LoadConfig(configFiles, g)
       IN /\ configFiles' = FilesAfterLoad(configFiles, g)
          /\ IF Len(config.categories) >= MaxCategories
             THEN UNCHANGED dialogs
             ELSE dialogs' = [dialogs EXCEPT ![d] =
                        [kind |-> "add", guild |-> g, category |-> <<>>,
                         config |-> config]]
    /\ UNCHANGED << DEFAULT_CONFIG, tickets, channels, nextId, panels, panelButtons,
                    controlViews, flows, prompts, raced, lowered, adds, merging, response >>

\* a variant that loads the configuration again when the form is submitted;
\* C28 does not hold of it
CategoryCreateSubmitReloaded(d, cat_id, name) ==
    /\ dialogs[d].kind = "add"
    /\ LET g == dialogs[d].guild
           config == LoadConfig(configFiles, g)
       IN IF cat_id \in CategoryIds(config.categories)
          THEN UNCHANGED << configFiles, lowered >>
          ELSE LET files == SaveConfig(configFiles, g,
                               [config EXCEPT !.categories =
                                   Append(@, [id |-> cat_id, name |-> name])])
               IN /\ configFiles' = files
                  /\ lowered' = LoweredBy(files)
    /\ dialogs' = [dialogs EXCEPT ![d] = NoDialog]
    /\ UNCHANGED << DEFAULT_CONFIG, tickets, channels, nextId, panels, panelButtons,
                    controlViews, flows, prompts, adminOps, raced, adds, merging, response >>

\* CategoryCreateModal.on_submit: the id is looked up in the form's own
\* TicketConfig, and config.set writes that whole structure
CategoryCreateSubmit(d, cat_id, name) ==
    /\ dialogs[d].kind = "add"
    /\ LET g == dialogs[d].guild
           config == dialogs[d].config
       IN IF cat_id \in CategoryIds(config.categories)
          THEN UNCHANGED << configFiles, lowered >>
          ELSE LET files == SaveConfig(configFiles, g,
                               [config EXCEPT !.categories =
                                   Append(@, [id |-> cat_id, name |-> name])])
               IN /\ configFiles' = files
                  /\ lowered' = LoweredBy(files)
    /\ dialogs' = [dialogs EXCEPT ![d] = NoDialog]
    /\ UNCHANGED << DEFAULT_CONFIG, tickets, channels, nextId, panels, panelButtons,
                    controlViews, flows, prompts, adminOps, raced, adds, merging, response >>

\* /ticket-category-remove and the selection: ConfirmDeleteView opens
RemoveCategory(d, u, g, cat_id) ==
    /\ u \in Admins
    /\ adminOps < MaxAdminOps
    /\ adminOps' = adminOps + 1
    /\ dialogs[d].kind = "none"
    /\ LET config == LoadConfig(configFiles, g)
       IN /\ cat_id \in CategoryIds(config.categories)
          /\ configFiles' = FilesAfterLoad(configFiles, g)
          /\ dialogs' = [dialogs EXCEPT ![d] =
                [kind |-> "remove", guild |-> g, category |-> cat_id,
                 config |-> config]]
    /\ UNCHANGED << DEFAULT_CONFIG, tickets, channels, nextId, panels, panelButtons,
                    controlViews, flows, prompts, raced, lowered, adds, merging, response >>

\* confirm_delete on the view's own TicketConfig: what the admin is told,
\* whether config.set is called, and the structure it then writes
confirm_delete(config, category_id) ==
    IF GetCategory(config.categories, category_id) = <<>>
    THEN [reply |-> "not_found", saved |-> FALSE, config |-> config]
    ELSE [reply |-> "deleted", saved |-> TRUE,
          config |-> [config EXCEPT !.categories =
                         SelectSeq(@, LAMBDA c : c.id # category_id)]]

\* ConfirmDeleteView.confirm_delete
ConfirmDelete(d) ==
    /\ dialogs[d].kind = "remove"
    /\ LET g == dialogs[d].guild
           done == confirm_delete(dialogs[d].config, dialogs[d].category)
       IN IF ~done.saved
          THEN UNCHANGED << configFiles, lowered >>
          ELSE LET files == SaveConfig(configFiles, g, done.config)
               IN /\ configFiles' = files
                  /\ lowered' = LoweredBy(files)
    /\ dialogs' = [dialogs EXCEPT ![d] = NoDialog]
    /\ UNCHANGED << DEFAULT_CONFIG, tickets, channels, nextId, panels, panelButtons,
                    controlViews, flows, prompts, adminOps, raced, adds, merging, response >>

\* the form is dismissed, the cancel button is pressed, or the view times out
DialogClosed(d) ==
    /\ dialogs[d].kind # "none"
    /\ dialogs' = [dialogs EXCEPT ![d] = NoDialog]
    /\ UNCHANGED << DEFAULT_CONFIG, configFiles, tickets, channels, nextId, panels,
                    panelButtons, controlViews, flows, prompts, adminOps, raced,
                    lowered, adds, merging, response >>

(***************************************************************************)
(* Ticket.restore_persistent_views and Ticket.restore_panels_manual        *)
(***************************************************************************)
\* what the transport answers for a stored panel and for a control message
PanelOutcomes == {"no_channel", "NotFound", "Forbidden", "ok"}
ControlOutcomes == {"NotFound", "Forbidden", "ok"}
\* the transport during one run: the guilds bot.get_guild resolves (all, or
\* all but one the bot was removed from), the answer
\* for each guild's panel and for each ticket channel's control message
Transports(chs) ==
    [guilds : {Guilds, ActiveGuilds},
     panel : [Guilds -> PanelOutcomes],
     control : [chs -> ControlOutcomes]]

\* step 1 of restore_persistent_views: the loop over panel_manager.panels.items()
\* in the given order.  remove_panel deletes from the dict the loop iterates,
\* so the loop's next step raises RuntimeError, which only the outermost
\* handler catches: the run ends there.
RECURSIVE RestorePanels(_, _, _)
RestorePanels(order, pn, w) ==
    IF order = <<>>
    THEN [panels |-> pn, bound |-> {}, fetched |-> {}, aborted |-> FALSE]
    ELSE LET g == Head(order)
             outcome == IF g \notin w.guilds THEN "no_guild" ELSE w.panel[g]
         IN IF outcome = "NotFound"
            THEN [panels |-> remove_panel(pn, g), bound |-> {}, fetched |-> {g},
                  aborted |-> TRUE]
            ELSE LET rest == RestorePanels(Tail(order), pn, w)
                 IN [panels |-> rest.panels,
                     bound |-> (IF outcome = "ok" THEN {g} ELSE {}) \cup rest.bound,
                     fetched |-> (IF outcome \in {"ok", "Forbidden"} THEN {g} ELSE {})
                                    \cup rest.fetched,
                     aborted |-> rest.aborted]

\* a variant that takes the last category of the name; C38 does not hold of
\* it
CategoryByNameLast(cats, name) ==
    LET hits == SelectSeq(cats, LAMBDA c : c.name = name)
    IN IF hits = <<>> THEN <<"support">> ELSE hits[Len(hits)].id

\* the category restore_persistent_views gives a ticket's control view: the
\* first whose display name is the ticket's Type, else "support"
CategoryByName(cats, name) ==
    LET hits == SelectSeq(cats, LAMBDA c : c.name = name)
    IN IF hits = <<>> THEN <<"support">> ELSE hits[1].id

\* step 2: the tickets whose control message is fetched
ControlFetched(tk, chans, w) ==
    {gc \in Guilds \X DOMAIN chans :
        /\ gc[1] \in w.guilds
        /\ is_ticket(tk, gc[2], gc[1])
        /\ tk[gc[1]][gc[2]].control_message_id # NoMessage
        /\ GetChannel(chans, gc[1], gc[2])}

\* the files once TicketConfig was constructed for each guild of gs
FilesAfterLoads(files, gs) ==
    [g \in DOMAIN files \cup gs |->
        IF g \in gs /\ ~Readable(files, g) THEN DEFAULT_CONFIG ELSE files[g]]

\* one run of restore_persistent_views: what it leaves and what it re-bound
restore_persistent_views(pn, tk, chans, files, order, w) ==
    LET pr == RestorePanels(order, pn, w)
        fetched == IF pr.aborted THEN {} ELSE ControlFetched(tk, chans, w)
        bound == {gc \in fetched : w.control[gc[2]] = "ok"}
        lost == {gc \in fetched : w.control[gc[2]] = "NotFound"}
    IN [panels |-> pr.panels,
        panel_fetched |-> pr.fetched,
        panel_bound |-> pr.bound,
        aborted |-> pr.aborted,
        tickets |-> [g \in DOMAIN tk |-> [ch \in DOMAIN tk[g] |->
                        IF <<g, ch>> \in lost
                        THEN [tk[g][ch] EXCEPT !.control_message_id = NoMessage]
                        ELSE tk[g][ch]]],
        control_fetched |-> fetched,
        control_bound |-> bound,
        files |-> FilesAfterLoads(files, pr.bound \cup {gc[1] : gc \in bound})]

\* the startup task
RestorePersistentViews(order, w) ==
    /\ order \in Orders(DOMAIN panels)
    /\ LET r == restore_persistent_views(panels, tickets, channels, configFiles, order, w)
       IN /\ panels' = r.panels
          /\ tickets' = r.tickets
          /\ configFiles' = r.files
          /\ panelButtons' = [g \in Guilds |->
                IF g \in r.panel_bound
                THEN panelButtons[g] \cup PanelViewButtons(configFiles, g)
                ELSE panelButtons[g]]
          /\ controlViews' =
                [ch \in DOMAIN controlViews \cup {gc[2] : gc \in r.control_bound} |->
                    IF \E gc \in r.control_bound : gc[2] = ch
                    THEN LET g == channels[ch].guild
                             config == LoadConfig(configFiles, g)
                         IN [guild_id |-> g,
                             category |-> CategoryByName(config.categories,
                                                         tickets[g][ch].Type),
                             config |-> config]
                    ELSE controlViews[ch]]
    /\ UNCHANGED << DEFAULT_CONFIG, channels, nextId, flows, prompts, dialogs, adminOps,
                    raced, lowered, adds, merging, response >>

\* the panel registry /ticket-panel-restore leaves for the interaction's guild
restore_panels_manual(pn, g, outcome) ==
    IF g \in DOMAIN pn /\ outcome = "NotFound" THEN remove_panel(pn, g) ELSE pn

\* /ticket-panel-restore: the panel of the interaction's guild only
RestorePanelsManual(u, g, outcome) ==
    /\ u \in Admins
    /\ adminOps < MaxAdminOps
    /\ adminOps' = adminOps + 1
    /\ panels' = restore_panels_manual(panels, g, outcome)
    /\ IF g \in DOMAIN panels /\ outcome = "ok"
       THEN /\ panelButtons' = [panelButtons EXCEPT
                                   ![g] = @ \cup PanelViewButtons(configFiles, g)]
            /\ configFiles' = FilesAfterLoad(configFiles, g)
       ELSE UNCHANGED << panelButtons, configFiles >>
    /\ UNCHANGED << DEFAULT_CONFIG, tickets, channels, nextId, controlViews, flows,
                    prompts, dialogs, raced, lowered, adds, merging, response >>

\* what refresh_panel answers and the panel registry it leaves: without a
\* stored panel and without its channel it says so; a fetch that raises
\* (NotFound, Forbidden) ends in the general except
refresh_panel(pn, g, outcome) ==
    [panels |-> pn,
     reply |-> IF get_panel(pn, g) = <<>> THEN "no_panel"
               ELSE IF outcome = "no_channel" THEN "no_channel"
               ELSE IF outcome = "ok" THEN "refreshed"
               ELSE "error"]

\* /ticket-panel-refresh: the stored panel message gets a new
\* TicketPanelView(guild)
RefreshPanel(u, g, outcome) ==
    /\ u \in Admins
    /\ adminOps < MaxAdminOps
    /\ adminOps' = adminOps + 1
    /\ outcome \in PanelOutcomes
    /\ LET r == refresh_panel(panels, g, outcome)
       IN /\ panels' = r.panels
          /\ response' = [op |-> "refresh_panel", user |-> u, at |-> 0, reply |-> r.reply]
          /\ panelButtons' = IF r.reply = "refreshed"
                             THEN [panelButtons EXCEPT
                                     ![g] = @ \cup PanelViewButtons(configFiles, g)]
                             ELSE panelButtons
    /\ configFiles' = FilesAfterLoad(configFiles, g)
    /\ UNCHANGED << DEFAULT_CONFIG, tickets, channels, nextId, controlViews, flows,
                    prompts, dialogs, raced, lowered, adds, merging >>

ActiveChannels == {ch \in DOMAIN channels : channels[ch].guild \in ActiveGuilds}

Optional(S) == {<<>>} \cup {<<x>> : x \in S}

(***************************************************************************)
(* The hourly auto_close_tickets loop. Every stored ticket was created at   *)
(* hour 0; now is the hour of the run and gs the guilds the bot is in.      *)
(***************************************************************************)
\* a variant that closes the tickets created before the cutoff; C40 does not
\* hold of it
AutoCloseTicketsClosing(gs, now) ==
    LET old(g) == LoadConfig(configFiles, g).auto_close_time > 0
                     /\ now - LoadConfig(configFiles, g).auto_close_time > 0
    IN /\ tickets' = [g \in DOMAIN tickets |->
                         IF g \in gs /\ old(g) THEN EmptyMap ELSE tickets[g]]
       /\ channels' = [ch \in DOMAIN channels |->
                          IF channels[ch].guild \in gs /\ old(channels[ch].guild)
                          THEN [channels[ch] EXCEPT !.alive = FALSE]
                          ELSE channels[ch]]
       /\ configFiles' = FilesAfterLoads(configFiles, gs)
       /\ response' = [op |-> "auto_close_tickets", user |-> "", at |-> now,
                       reply |-> ""]
       /\ UNCHANGED << DEFAULT_CONFIG, nextId, panels, panelButtons, controlViews,
                       flows, prompts, dialogs, adminOps, raced, lowered, adds,
                       merging >>

\* TicketConfig(guild.id) per guild, which writes the file of a guild that has
\* none; the cutoff_time computed where auto_close_hours > 0 is used by
\* nothing, and the loop answers nobody
AutoCloseTickets(gs, now) ==
    /\ configFiles' = FilesAfterLoads(configFiles, gs)
    /\ response' = [op |-> "auto_close_tickets", user |-> "", at |-> now,
                    reply |-> ""]
    /\ UNCHANGED << DEFAULT_CONFIG, tickets, channels, nextId, panels, panelButtons,
                    controlViews, flows, prompts, dialogs, adminOps, raced, lowered,
                    adds, merging >>

(***************************************************************************)
(* The handlers, grouped as the specifications below combine them          *)
(***************************************************************************)
\* a member presses a panel button; the coroutine runs to its end
CreateFlow(buttons) ==
    \/ \E f \in Flows, u \in TicketUsers, g \in ActiveGuilds :
          \E custom_id \in panelButtons[g] \cap buttons :
             CreateTicketClick(f, u, g, custom_id)
    \/ \E f \in Flows : CreateTicketChannel(f)
    \/ \E f \in Flows, error \in {"Forbidden", "Exception"} : CreateTicketFailed(f, error)
    \/ \E f \in Flows : CreateTicketWelcome(f)

\* a member who sees a ticket channel uses the close control or /close
CloseFlow ==
    \/ \E p \in DOMAIN prompts, u \in Users, ch \in ActiveChannels : CloseTicketButton(p, u, ch)
    \/ \E p \in DOMAIN prompts, u \in Users, ch \in ActiveChannels : CloseTicketSlash(p, u, ch)
    \/ \E p \in DOMAIN prompts : ConfirmClose(p)
    \/ \E p \in DOMAIN prompts, outcome \in {"deleted", "Forbidden", "NotFound"} :
          ConfirmCloseDelete(p, outcome)
    \/ \E p \in DOMAIN prompts : CancelClose(p)
    \/ \E p \in DOMAIN prompts : CloseTimeout(p)

\* a ticket channel is deleted by hand; an admin runs /ticket-cleanup
Ghosts ==
    \/ \E ch \in ActiveChannels : ExternalDelete(ch)
    \/ \E u \in Admins, g \in ActiveGuilds : CleanupCommand(u, g)

\* a member adds another member to a ticket
Participants ==
    \E u \in Users, ch \in ActiveChannels, member \in Mentioned : AddUser(u, ch, member)

\* an admin changes the limit
LimitSettings ==
    \E u \in Admins, g \in ActiveGuilds, max_arg \in Optional(MaxTicketsInputs) :
       TicketSettings(u, g, [NoSettings EXCEPT !.max_tickets = max_arg], "started")

\* an admin adds or removes a staff role
StaffSettings ==
    \/ \E u \in Admins, g \in ActiveGuilds : \E staff_role \in GuildRoles[g] :
          TicketSettings(u, g, [NoSettings EXCEPT !.staff_role = <<staff_role>>], "started")
    \/ \E u \in Admins, g \in ActiveGuilds : \E role \in GuildRoles[g] :
          RemoveStaffRole(u, g, role)

\* the words a member answers the add-participant instruction with
ReplyWords ==
    { << "<", "@", "7", ">" >>, << "<", "@", "!", "5", ">" >>, << "8" >>, << "7" >>,
      << "<", "@", "&", "7", ">" >>, << "<", "@", ">" >>, << "h", "i" >>, << "0" >> }
MaxWords == 2
Replies == UNION {[1..n -> ReplyWords] : n \in 0..MaxWords}

\* the parameters of /ticket-settings given together: a role of the guild, a
\* channel, limits and hours within and out of range, the transcript flag
SettingsInputs(g) ==
    [staff_role : Optional(GuildRoles[g]),
     log_channel : Optional({9}),
     max_tickets : Optional({0, 1, 10, 11}),
     auto_close_hours : Optional({-1, 0, 12}),
     transcripts_enabled : Optional(BOOLEAN)]

\* admins add categories of the given ids and names and remove the given ones
CategoryForms(added, names, removed) ==
    \/ \E d \in DOMAIN dialogs, u \in Admins, g \in ActiveGuilds : AddCategory(d, u, g)
    \/ \E d \in DOMAIN dialogs, cat_id \in added, name \in names :
          CategoryCreateSubmit(d, cat_id, name)
    \/ \E d \in DOMAIN dialogs, u \in Admins, g \in ActiveGuilds :
          \E cat_id \in removed : RemoveCategory(d, u, g, cat_id)
    \/ \E d \in DOMAIN dialogs : ConfirmDelete(d)
    \/ \E d \in DOMAIN dialogs : DialogClosed(d)

\* an admin edits the categories and posts a panel
CategorySettings ==
    \/ \E u \in Admins, g \in ActiveGuilds : SetupPanel(u, g)
    \/ CategoryForms(NewCategoryIds, NewCategoryNames, RemovedCategoryIds)

\* the startup task runs against some transport; an admin uses /ticket-panel-restore
Restoration(worlds) ==
    \/ \E order \in Orders(DOMAIN panels), w \in worlds : RestorePersistentViews(order, w)
    \/ \E u \in Admins, g \in Guilds, outcome \in PanelOutcomes :
          RestorePanelsManual(u, g, outcome)

(***************************************************************************)
(* Spec: one member's tickets against the limit.  Panel clicks, the close  *)
(* flow, channels deleted by hand, cleanup and changes of the limit.       *)
(***************************************************************************)
Next ==
    \/ CreateFlow(QuotaButtons)
    \/ CloseFlow
    \/ Ghosts
    \/ LimitSettings

Spec == Init /\ [][Next]_vars

(***************************************************************************)
(* PanelSpec: the panel against the categories.  Panel clicks on every     *)
(* button while an admin adds and removes categories and posts panels.     *)
(***************************************************************************)
PanelNext ==
    \/ CreateFlow(ClickedButtons)
    \/ CategorySettings

PanelSpec == Init /\ [][PanelNext]_vars

(***************************************************************************)
(* CloseSpec: who can close a ticket.  The owner, an added member, a       *)
(* holder of the staff role and an admin use the close control and /close  *)
(* on a stored ticket while an admin adds and removes the staff role.      *)
(***************************************************************************)
CloseNext ==
    \/ CloseFlow
    \/ Participants
    \/ StaffSettings
    \/ \E ch \in ActiveChannels : ExternalDelete(ch)

CloseSpec == InitOpenTicket /\ [][CloseNext]_vars

(***************************************************************************)
(* ReentrySpec: the close flow entered twice.  Members open two prompts on *)
(* the stored ticket, or one after the other, and answer them.             *)
(***************************************************************************)
ReentryNext == CloseFlow

ReentrySpec == InitReentry /\ [][ReentryNext]_vars

(***************************************************************************)
(* RestoreSpec: restoration over what earlier runs stored, against every   *)
(* answer of the transport.                                                *)
(***************************************************************************)
StoredChannels == {StoredIds[i] : i \in DOMAIN StoredIds}

RestoreNext == Restoration(Transports(StoredChannels))

RestoreSpec == InitStored /\ [][RestoreNext]_vars

(***************************************************************************)
(* ControlSpec: a ticket's control message.  Panel clicks create tickets   *)
(* and restoration runs again (the extension is reloaded) while control    *)
(* messages are there, deleted, or out of the bot's reach.                 *)
(***************************************************************************)
TicketChannels == 1..MaxId
ControlWorlds ==
    [guilds : {Guilds},
     panel : {[g \in Guilds |-> outcome] : outcome \in {"ok", "NotFound"}},
     control : [TicketChannels -> ControlOutcomes]]

ControlNext ==
    \/ CreateFlow(QuotaButtons)
    \/ Restoration(ControlWorlds)

ControlSpec == Init /\ [][ControlNext]_vars

(***************************************************************************)
(* ConfigSpec: loading the configuration.  An admin of one guild changes   *)
(* the settings and posts a panel, and members click it, while files of    *)
(* the guilds are absent or unreadable.                                    *)
(***************************************************************************)
ConfigNext ==
    \/ LimitSettings
    \/ StaffSettings
    \/ \E u \in Admins, g \in ActiveGuilds : SetupPanel(u, g)
    \/ CreateFlow(QuotaButtons)

ConfigSpec == InitFresh /\ [][ConfigNext]_vars

(***************************************************************************)
(* SettingsSpec: /ticket-settings with its parameters in every combination, *)
(* values out of range among them, and /ticket-staff-remove.               *)
(***************************************************************************)
SettingsNext ==
    \/ \E u \in Admins, g \in ActiveGuilds :
          \E args \in SettingsInputs(g), restart \in {"started", "RuntimeError"} :
             TicketSettings(u, g, args, restart)
    \/ \E u \in Admins, g \in ActiveGuilds : \E role \in GuildRoles[g] :
          RemoveStaffRole(u, g, role)

SettingsSpec == Init /\ [][SettingsNext]_vars

(***************************************************************************)
(* AddSpec: members of a stored open ticket add members to it, answering   *)
(* with mentions, ids and other words, or not at all, while the channel is *)
(* there or deleted by hand.                                               *)
(***************************************************************************)
AddNext ==
    \/ \E a \in Adders, u \in Users, ch \in ActiveChannels : AddUserClick(a, u, ch)
    \/ \E a \in Adders : AddUserTimeout(a)
    \/ \E a \in Adders, words \in Replies : AddUserReply(a, words)
    \/ \E a \in Adders, outcome \in {"ok", "Forbidden", "NotFound", "none"} :
          AddUserGrant(a, outcome)
    \/ \E a \in Adders : AddUserReport(a)
    \/ \E ch \in ActiveChannels : ExternalDelete(ch)

AddSpec == InitOpenTicket /\ [][AddNext]_vars

(***************************************************************************)
(* TranscriptSpec: members ask for the transcript of tickets that are open *)
(* or being closed, made while transcripts were enabled or disabled.       *)
(***************************************************************************)
TranscriptNext ==
    \/ \E u \in Users, ch \in ActiveChannels, outcome \in {"sent", "error"} :
          CreateTranscript(u, ch, outcome)
    \/ \E u \in Admins, g \in ActiveGuilds, enabled \in BOOLEAN :
          TicketSettings(u, g, [NoSettings EXCEPT !.transcripts_enabled = <<enabled>>],
                         "started")
    \/ CreateFlow(QuotaButtons)
    \/ CloseFlow

TranscriptSpec == InitOpenTicket /\ [][TranscriptNext]_vars

(***************************************************************************)
(* RefreshSpec: admins post, refresh and restore the panel of a guild      *)
(* whose panel message is there, deleted or out of the bot's reach, while  *)
(* categories are added and removed and members open tickets.              *)
(***************************************************************************)
RefreshNext ==
    \/ \E u \in Admins, g \in Guilds, outcome \in PanelOutcomes : RefreshPanel(u, g, outcome)
    \/ \E u \in Admins, g \in Guilds, outcome \in PanelOutcomes :
          RestorePanelsManual(u, g, outcome)
    \/ \E u \in Admins, g \in ActiveGuilds : SetupPanel(u, g)
    \/ CategoryForms(FormCategoryIds, FormCategoryNames, FormRemovedIds)
    \/ CreateFlow(QuotaButtons)

RefreshSpec == Init /\ [][RefreshNext]_vars

(***************************************************************************)
(* TypedSpec: restoration of tickets whose stored category name matches    *)
(* one category, several or none, every panel message being there.         *)
(***************************************************************************)
TypedNext ==
    \E order \in Orders(DOMAIN panels) :
       \E w \in [guilds : {Guilds}, panel : {[g \in Guilds |-> "ok"]},
                 control : [StoredChannels -> ControlOutcomes]] :
          RestorePersistentViews(order, w)

TypedSpec == InitTyped /\ [][TypedNext]_vars

(***************************************************************************)
(* RegistrySpec: the three writing functions of the ticket registry called *)
(* with any arguments, in any order, on the registry of an open ticket.    *)
(***************************************************************************)
\* one call; the reply is str() of the value the function returns
RegistryCall(op, ch, owner_id, g, reason, message_id) ==
    /\ op \in {"create_ticket", "kill_ticket", "add_control_message_to_ticket"}
    /\ tickets' =
          CASE op = "create_ticket" -> create_ticket(tickets, ch, owner_id, g, reason)
            [] op = "kill_ticket" -> kill_ticket(tickets, ch, g)
            [] op = "add_control_message_to_ticket" ->
                  add_control_message_to_ticket(tickets, ch, g, message_id)
    /\ response' =
          [op |-> op, user |-> "", at |-> ch,
           reply |-> IF op = "create_ticket" \/ is_ticket(tickets, ch, g)
                     THEN "True" ELSE "False"]
    /\ UNCHANGED << DEFAULT_CONFIG, configFiles, channels, nextId, panels,
                    panelButtons, controlViews, flows, prompts, dialogs, adminOps,
                    raced, lowered, adds, merging >>

RegistryNext ==
    \E op \in {"create_ticket", "kill_ticket", "add_control_message_to_ticket"},
       ch \in StoredChannels, g \in Guilds,
       message_id \in {NoMessage, <<"message", 0>>} :
       RegistryCall(op, ch, "bob", g, "Support", message_id)

RegistrySpec == InitOpenTicket /\ [][RegistryNext]_vars

(***************************************************************************)
(* AutoSpec: the hourly loop runs at any hour, in any of the guilds, while *)
(* admins set the hours, to none, to zero and above, and tickets are       *)
(* closed by hand.                                                         *)
(***************************************************************************)
AutoNext ==
    \/ \E gs \in SUBSET Guilds, now \in {1, 12, 13, 30} : AutoCloseTickets(gs, now)
    \/ \E u \in Admins, g \in Guilds, hours \in {-1, 0, 12} :
          TicketSettings(u, g, [NoSettings EXCEPT !.auto_close_hours = <<hours>>],
                         "started")
    \/ CloseFlow

AutoSpec == InitOpenTicket /\ [][AutoNext]_vars

(***************************************************************************)
(* FormSpec: two admins at the categories of a guild that is one category  *)
(* below the limit, while the limit of tickets is changed and a panel is   *)
(* posted.                                                                 *)
(***************************************************************************)
FormNext ==
    \/ CategoryForms(FormCategoryIds, FormCategoryNames, FormRemovedIds)
    \/ LimitSettings
    \/ \E u \in Admins, g \in ActiveGuilds : SetupPanel(u, g)

FormSpec == InitForms /\ [][FormNext]_vars

(***************************************************************************)
(* MergeSpec: one configuration file through load, save and load again,    *)
(* for every default and every file of the shapes above.                   *)
(***************************************************************************)
MergeNext ==
    \/ LoadConfigFile
    \/ SaveConfigFile

MergeSpec == InitMerge /\ [][MergeNext]_vars

(***************************************************************************)
(* Properties                                                              *)
(***************************************************************************)
\* maxTicketsPerUser of the guild: the stored value, the default's without a file
Configured(g) ==
    IF g \in DOMAIN configFiles
    THEN configFiles[g].max_tickets_per_user
    ELSE DEFAULT_CONFIG.max_tickets_per_user
\* the transport resolves the channel in the guild
Resolves(g, ch) == ch \in DOMAIN channels /\ channels[ch].alive /\ channels[ch].guild = g
\* registry entries of g owned by u, and those of them whose channel exists
Owned(u, g) == OwnedBy(GuildTickets(tickets, g), u)
OwnedOpen(u, g) == {ch \in Owned(u, g) : Resolves(g, ch)}
\* the answer of the quota check in the current state
CanOpen(u, g) == max_tickets(tickets, channels, configFiles, u, g).allowed
\* registry entries of g whose channel the transport does not resolve
GhostEntries(g) == {ch \in DOMAIN GuildTickets(tickets, g) : ~Resolves(g, ch)}

\* C1: for every member and guild the quota check answers true exactly when
\* the entries of the guild owned by the member that remain after the sweep,
\* those whose channel exists, are fewer than the configured limit.
C1_CanOpenIffBelowLimit ==
    \A u \in Users, g \in Guilds :
       LET check == max_tickets(tickets, channels, configFiles, u, g)
       IN /\ check.allowed <=> Cardinality(OwnedOpen(u, g)) < Configured(g)
          /\ OwnedBy(GuildTickets(check.tickets, g), u) = OwnedOpen(u, g)

\* a member whose entries, ghosts included, reach the limit is let through
\* because the sweep of the check prunes a ghost
C1_Witness ==
    \E u \in TicketUsers, g \in ActiveGuilds :
       /\ Cardinality(Owned(u, g)) >= Configured(g)
       /\ Owned(u, g) # OwnedOpen(u, g)
       /\ CanOpen(u, g)

\* the member owns as many entries as the limit and all their channels exist
AtLimit(u, g) ==
    /\ Cardinality(Owned(u, g)) = Configured(g)
    /\ Owned(u, g) = OwnedOpen(u, g)
\* this step is a confirmed close of exactly one of the member's entries
ClosedOne(u, g) ==
    \E ch \in Owned(u, g) :
       /\ tickets' = Put(tickets, g, Drop(tickets[g], ch))
       /\ channels' = channels
\* in this step exactly one of the member's channels is deleted by hand
DeletedOne(u, g) ==
    \E ch \in Owned(u, g) :
       /\ tickets' = tickets
       /\ ~channels'[ch].alive
       /\ \A other \in DOMAIN channels \ {ch} : channels'[other] = channels[other]

\* C2: a member at the limit, with every channel present, is refused; once
\* exactly one of those entries is closed with confirmation, or its channel
\* is deleted by hand so that the next sweep prunes it, the check answers true.
C2_RefusedAtLimitThenAllowed ==
    [][\A u \in Users, g \in Guilds :
          /\ AtLimit(u, g) => ~CanOpen(u, g)
          /\ AtLimit(u, g)' => ~CanOpen(u, g)'
          /\ (AtLimit(u, g) /\ configFiles' = configFiles
                 /\ (ClosedOne(u, g) \/ DeletedOne(u, g)))
             => CanOpen(u, g)']_vars

\* a confirmed close took a member from the limit to one below it
C2_Witness ==
    \E p \in Prompts, u \in TicketUsers :
       /\ prompts[p].pc = "closing"
       /\ ~is_ticket(tickets, prompts[p].channel, prompts[p].guild)
       /\ Cardinality(Owned(u, prompts[p].guild)) = Configured(prompts[p].guild) - 1
       /\ CanOpen(u, prompts[p].guild)

\* C3: a sweep of guild g removes exactly the entries of g whose channel
\* does not resolve, keeps every other entry of g and every other guild as
\* it is, reports how many it removed, and does so in every visiting order.
C3_SweepRemovesExactlyGhosts ==
    \A g \in Guilds :
       LET swept == cleanup_ghost_tickets(tickets, channels, g)
       IN /\ DOMAIN swept.tickets = DOMAIN tickets
          /\ \A h \in DOMAIN tickets \ {g} : swept.tickets[h] = tickets[h]
          /\ swept.removed = Cardinality(GhostEntries(g))
          /\ g \in DOMAIN tickets =>
                /\ DOMAIN swept.tickets[g] = DOMAIN tickets[g] \ GhostEntries(g)
                /\ \A ch \in DOMAIN swept.tickets[g] : swept.tickets[g][ch] = tickets[g][ch]
                /\ \A order \in Orders(DOMAIN tickets[g]) :
                      CleanupInOrder(tickets, channels, g, order) = swept

\* a guild holds two ghosts and another guild holds an entry
C3_Witness ==
    \E g \in ActiveGuilds :
       /\ Cardinality(GhostEntries(g)) > 1
       /\ \E h \in Guilds \ {g} : DOMAIN GuildTickets(tickets, h) # {}

\* C4: while a member's create flows never overlap and the guild's limit is
\* never lowered, the member owns at most as many entries as the limit.
C4_WithinLimitWithoutRace ==
    \A u \in Users, g \in Guilds :
       (<<u, g>> \notin raced /\ g \notin lowered)
          => Cardinality(Owned(u, g)) <= Configured(g)

\* a member reached the limit with flows one after the other
C4_Witness ==
    \E u \in TicketUsers, g \in ActiveGuilds :
       /\ <<u, g>> \notin raced
       /\ g \notin lowered
       /\ Cardinality(Owned(u, g)) = Configured(g)
       /\ Cardinality(Owned(u, g)) > 1

\* C5: the click checks the quota and writes no record; the record is
\* written when the channel is there, whatever the member owns by then; with
\* two flows of a member in flight the member ends with at most one entry
\* more than the limit.
C5_CheckThenAct ==
    [][/\ \A u \in Users, g \in Guilds :
             g \notin lowered' => Cardinality(Owned(u, g))' <= Configured(g)' + 1
       /\ \A f \in Flows, u \in TicketUsers, g \in ActiveGuilds :
             \A custom_id \in panelButtons[g] :
                CreateTicketClick(f, u, g, custom_id)
                   => DOMAIN GuildTickets(tickets', g) \subseteq DOMAIN GuildTickets(tickets, g)
       /\ \A f \in Flows, u \in TicketUsers, g \in ActiveGuilds :
             (CreateTicketChannel(f) /\ u = flows[f].user /\ g = flows[f].guild)
                => Owned(u, g)' = Owned(u, g) \cup {nextId} /\ nextId \notin Owned(u, g)]_vars

\* two overlapping flows left the member one entry above the limit
C5_Witness ==
    \E u \in TicketUsers, g \in ActiveGuilds :
       /\ <<u, g>> \in raced
       /\ g \notin lowered
       /\ Cardinality(OwnedOpen(u, g)) = Configured(g) + 1

\* C6: a failed channel creation leaves the registry as it was, and every
\* record a step writes is for a channel the transport has created.
C6_RecordAfterChannel ==
    [][/\ \A f \in Flows, error \in {"Forbidden", "Exception"} :
             CreateTicketFailed(f, error) => tickets' = tickets /\ channels' = channels
       /\ \A g \in DOMAIN tickets' :
             \A ch \in DOMAIN tickets'[g] :
                ~is_ticket(tickets, ch, g) => Resolves(g, ch)']_vars

\* a flow has written its record for the channel it was given
C6_Witness ==
    \E f \in Flows :
       /\ flows[f].pc = "created"
       /\ ticket_check(tickets, flows[f].user, flows[f].channel, flows[f].guild)
       /\ Resolves(flows[f].guild, flows[f].channel)

\* the category a panel button was made for
ButtonCategory(custom_id) == DecodeCategoryFront(custom_id)
\* the categories of the guild's current configuration
CurrentCategories(g) == LoadConfig(configFiles, g).categories

\* C7: a click on a button whose category is not in the current
\* configuration, or by a member the quota check refuses, starts no flow and
\* so creates no channel and writes no record.
C7_NoFlowWithoutPreconditions ==
    [][\A f \in Flows, u \in TicketUsers, g \in ActiveGuilds :
          \A custom_id \in panelButtons[g] :
             (/\ CreateTicketClick(f, u, g, custom_id)
              /\ \/ ButtonCategory(custom_id) \notin CategoryIds(CurrentCategories(g))
                 \/ ~CanOpen(u, g))
             => /\ flows' = flows
                /\ channels' = channels
                /\ DOMAIN GuildTickets(tickets', g) \subseteq DOMAIN GuildTickets(tickets, g)]_vars

\* C8: the step of a flow that writes the record adds one entry, keyed by
\* the new channel, owned by the member who clicked, labelled with the
\* display name the button's category has in the configuration at that
\* time, and leaves every other entry as it was.
C8_OneEntryWithCategoryName ==
    [][\A f \in Flows :
          (/\ CreateTicketChannel(f)
           /\ ButtonCategory(flows[f].custom_id)
                 \in CategoryIds(CurrentCategories(flows[f].guild)))
          => LET g == flows[f].guild
                 ch == nextId
             IN /\ DOMAIN tickets'[g] = DOMAIN GuildTickets(tickets, g) \cup {ch}
                /\ ch \notin DOMAIN GuildTickets(tickets, g)
                /\ channels'[ch].guild = g
                /\ tickets'[g][ch].Owner_ID = flows[f].user
                /\ tickets'[g][ch].Type =
                      CategoryName(CurrentCategories(g), ButtonCategory(flows[f].custom_id))
                /\ \A other \in DOMAIN GuildTickets(tickets, g) :
                      tickets'[g][other] = tickets[g][other]
                /\ \A h \in DOMAIN tickets \ {g} : tickets'[h] = tickets[h]]_vars

\* owner, administrator, or holder of a role the guild has configured as staff
Authorized(u, ch, g) ==
    \/ ticket_check(tickets, u, ch, g)
    \/ u \in Admins
    \/ MemberRoles(u, g) \cap LoadConfig(configFiles, g).staff_role_ids # {}

\* C9: the close control and the close command open the prompt only for the
\* owner, an administrator or a holder of a configured staff role, and a
\* confirmation removes the entry only when such a member confirms.
C9_CloseOnlyByAuthorized ==
    [][/\ \A p \in Prompts, u \in Users, ch \in ActiveChannels :
             ((CloseTicketButton(p, u, ch) \/ CloseTicketSlash(p, u, ch))
                /\ ~Authorized(u, ch, channels[ch].guild))
             => prompts' = prompts
       /\ \A p \in Prompts :
             (ConfirmClose(p) /\ tickets' # tickets)
             => Authorized(prompts[p].user, prompts[p].channel, prompts[p].guild)]_vars

C11_CancelKeepsTicket ==
    [][\A p \in DOMAIN prompts :
          (CancelClose(p) \/ CloseTimeout(p))
          => /\ tickets' = tickets
             /\ channels' = channels
             /\ panels' = panels
             /\ configFiles' = configFiles
             /\ DEFAULT_CONFIG' = DEFAULT_CONFIG
             /\ (is_ticket(tickets, prompts[p].channel, prompts[p].guild)
                   => is_ticket(tickets', prompts[p].channel, prompts[p].guild))]_vars

\* a prompt is open on an open ticket whose owner can press cancel, in a
\* guild with a posted panel and a stored configuration
C11_Witness ==
    \E p \in DOMAIN prompts :
       /\ prompts[p].pc = "open"
       /\ ticket_check(tickets, prompts[p].user, prompts[p].channel, prompts[p].guild)
       /\ Resolves(prompts[p].guild, prompts[p].channel)
       /\ prompts[p].guild \in DOMAIN panels \cap DOMAIN configFiles

\* C12: a confirmation that finds the ticket's entry already gone does
\* nothing: it does not go on to request the deletion of the channel, so the
\* deletion of a ticket's channel is requested at most once.
C12_SecondConfirmDoesNothing ==
    [][\A p \in DOMAIN prompts :
          (/\ ConfirmClose(p)
           /\ ~is_ticket(tickets, prompts[p].channel, prompts[p].guild))
          => prompts'[p].pc # "closing"]_vars

\* C13: when the transport refuses the deletion a confirmed close asks for,
\* the ticket's entry is in the registry afterwards: no channel is left
\* existing without its record by a close that failed.
C13_ForbiddenDeleteKeepsEntry ==
    [][\A p \in DOMAIN prompts :
          ConfirmCloseDelete(p, "Forbidden")
          => /\ tickets' = tickets
             /\ is_ticket(tickets', prompts[p].channel, prompts[p].guild)]_vars

\* one run of the startup restoration from the current state
Restored(order, w) ==
    restore_persistent_views(panels, tickets, channels, configFiles, order, w)
\* the transports a run can meet
RestoreWorlds == Transports(StoredChannels)

\* C14: whatever fails for other entries, a run re-binds every stored panel
\* whose guild, channel and message resolve and every ticket control message
\* whose guild, channel and message resolve.
C14_RestoreToleratesFailures ==
    \A order \in Orders(DOMAIN panels), w \in RestoreWorlds :
       LET r == Restored(order, w)
       IN /\ \A g \in DOMAIN panels :
                (g \in w.guilds /\ w.panel[g] = "ok") => g \in r.panel_bound
          /\ \A gc \in ControlFetched(tickets, channels, w) :
                w.control[gc[2]] = "ok" => gc \in r.control_bound

\* C15: a second run against the same transport leaves the panel registry
\* and the ticket registry of the first run, binds nothing the first run did
\* not bind, and no run adds a panel or a ticket.
C15_RestoreIdempotent ==
    \A order \in Orders(DOMAIN panels), w \in RestoreWorlds :
       LET r == Restored(order, w)
       IN /\ DOMAIN r.panels \subseteq DOMAIN panels
          /\ DOMAIN r.tickets = DOMAIN tickets
          /\ \A g \in DOMAIN tickets : DOMAIN r.tickets[g] = DOMAIN tickets[g]
          /\ \A again \in Orders(DOMAIN r.panels) :
                LET rr == restore_persistent_views(r.panels, r.tickets, channels,
                                                   r.files, again, w)
                IN /\ rr.panels = r.panels
                   /\ rr.tickets = r.tickets
                   /\ rr.panel_bound \subseteq r.panel_bound
                   /\ rr.control_bound \subseteq r.control_bound

\* C16: a run drops every stored panel whose guild or channel does not
\* resolve.
C16_UnresolvedPanelDropped ==
    \A order \in Orders(DOMAIN panels), w \in RestoreWorlds :
       \A g \in DOMAIN panels :
          (g \notin w.guilds \/ w.panel[g] = "no_channel")
             => g \notin DOMAIN Restored(order, w).panels

\* C17: a panel whose message fetch answers not-found is removed from the
\* registry and one whose fetch is forbidden keeps its record as it was, in
\* the startup run and in the manual command alike.
C17_NotFoundDropsForbiddenKeeps ==
    /\ \A order \in Orders(DOMAIN panels), w \in RestoreWorlds :
          LET r == Restored(order, w)
          IN \A g \in r.panel_fetched :
                /\ w.panel[g] = "NotFound" => g \notin DOMAIN r.panels
                /\ w.panel[g] = "Forbidden"
                      => g \in DOMAIN r.panels /\ r.panels[g] = panels[g]
    /\ \A g \in DOMAIN panels :
          /\ g \notin DOMAIN restore_panels_manual(panels, g, "NotFound")
          /\ restore_panels_manual(panels, g, "Forbidden") = panels
          /\ \A h \in DOMAIN panels \ {g} :
                /\ h \in DOMAIN restore_panels_manual(panels, g, "NotFound")
                /\ restore_panels_manual(panels, g, "NotFound")[h] = panels[h]

\* two panels are stored and a run fetches both: one fetch is forbidden, the
\* other answers not-found
C17_Witness ==
    /\ Cardinality(DOMAIN panels) > 1
    /\ \E order \in Orders(DOMAIN panels), w \in RestoreWorlds :
          LET r == Restored(order, w)
          IN \E g, h \in r.panel_fetched :
                /\ w.panel[g] = "Forbidden"
                /\ w.panel[h] = "NotFound"
                /\ DOMAIN r.panels = DOMAIN panels \ {h}

\* C19: a run drops every stored ticket that has a recorded control message
\* and whose channel does not resolve.
C19_UnresolvedTicketDropped ==
    \A order \in Orders(DOMAIN panels), w \in RestoreWorlds :
       \A g \in DOMAIN tickets \cap w.guilds :
          \A ch \in DOMAIN tickets[g] :
             (/\ tickets[g][ch].control_message_id # NoMessage
              /\ ~GetChannel(channels, g, ch))
             => ch \notin DOMAIN Restored(order, w).tickets[g]

\* C18: an entry is written without a control message; the id is set by the
\* step of the create flow that sends the welcome message, to that message;
\* the only other change is the clearing by a restoration run whose fetch of
\* the message answers not-found, which keeps the rest of the record; a
\* forbidden fetch changes nothing.
C18_ControlMessageSetOnce ==
    [][/\ \A g \in Guilds, ch \in TicketChannels :
             /\ (is_ticket(tickets', ch, g) /\ ~is_ticket(tickets, ch, g))
                   => tickets'[g][ch].control_message_id = NoMessage
             /\ (/\ is_ticket(tickets', ch, g)
                 /\ is_ticket(tickets, ch, g)
                 /\ tickets'[g][ch] # tickets[g][ch])
                   => \/ /\ tickets[g][ch].control_message_id = NoMessage
                         /\ tickets'[g][ch] = [tickets[g][ch] EXCEPT
                                !.control_message_id = ControlMessageId(ch)]
                         /\ \E f \in Flows :
                               /\ CreateTicketWelcome(f)
                               /\ flows[f].channel = ch
                               /\ flows[f].guild = g
                      \/ /\ tickets[g][ch].control_message_id # NoMessage
                         /\ tickets'[g][ch] = [tickets[g][ch] EXCEPT
                                !.control_message_id = NoMessage]
                         /\ \E order \in Orders(DOMAIN panels), w \in ControlWorlds :
                               /\ RestorePersistentViews(order, w)
                               /\ <<g, ch>> \in ControlFetched(tickets, channels, w)
                               /\ w.control[ch] = "NotFound"
       /\ \A order \in Orders(DOMAIN panels), w \in ControlWorlds :
             LET r == Restored(order, w)
             IN \A g \in DOMAIN tickets :
                   \A ch \in DOMAIN tickets[g] :
                      IF <<g, ch>> \in r.control_fetched /\ w.control[ch] = "NotFound"
                      THEN r.tickets[g][ch] = [tickets[g][ch] EXCEPT
                                                 !.control_message_id = NoMessage]
                      ELSE r.tickets[g][ch] = tickets[g][ch]]_vars

\* a ticket made by the create flow has lost its control message id in a
\* restoration run and keeps its record
C18_Witness ==
    \E g \in ActiveGuilds, ch \in TicketChannels :
       /\ is_ticket(tickets, ch, g)
       /\ Resolves(g, ch)
       /\ tickets[g][ch].control_message_id = NoMessage
       /\ \A f \in Flows : flows[f].pc = "idle"
       /\ \E other \in TicketChannels \ {ch} :
             /\ is_ticket(tickets, other, g)
             /\ tickets[g][other].control_message_id = ControlMessageId(other)

\* C20: for a guild without a stored configuration, and for one whose file
\* does not load, the configuration that is loaded is the compiled-in
\* default, and that default is what the load leaves stored for the guild.
C20_LoadYieldsDefault ==
    \A g \in Guilds :
       ~Readable(configFiles, g)
          => /\ LoadConfig(configFiles, g) = InitialDefaultConfig
             /\ FilesAfterLoad(configFiles, g)[g] = InitialDefaultConfig
             /\ \A h \in DOMAIN configFiles \ {g} :
                   FilesAfterLoad(configFiles, g)[h] = configFiles[h]

\* key paths and the value a dict holds at one: <<value>>, or <<>> for none
RECURSIVE PathsFrom(_)
PathsFrom(depth) ==
    IF depth > Len(MergeKeys)
    THEN {<<>>}
    ELSE {<<>>} \cup {<<key>> \o rest : key \in MergeKeys[depth], rest \in PathsFrom(depth + 1)}
MergePaths == PathsFrom(1) \ {<<>>}
RECURSIVE Lookup(_, _)
Lookup(value, path) ==
    IF path = <<>> THEN <<value>>
    ELSE IF value.dict /\ Head(path) \in DOMAIN value.items
         THEN Lookup(value.items[Head(path)], Tail(path))
         ELSE <<>>
\* the path leads to a dict
IsDictAt(value, path) == Lookup(value, path) # <<>> /\ Lookup(value, path)[1].dict
\* the keys of the dict at the path
KeysAt(value, path) == DOMAIN Lookup(value, path)[1].items

\* the file holds a leaf above the path: the stored value replaced the dict
\* the path leads through
ReplacedAbove(stored, path) ==
    \E i \in 1..(Len(path) - 1) :
       /\ Lookup(stored, SubSeq(path, 1, i)) # <<>>
       /\ ~IsDictAt(stored, SubSeq(path, 1, i))
\* merged is the deep merge of stored into default, path by path
MergedAsStated(default, stored, merged) ==
    /\ merged.dict
    /\ DOMAIN merged.items = DOMAIN default.items \cup DOMAIN stored.items
    /\ \A path \in MergePaths :
          LET d == Lookup(default, path)
              s == Lookup(stored, path)
              m == Lookup(merged, path)
          IN /\ (IsDictAt(default, path) /\ IsDictAt(stored, path))
                   => /\ IsDictAt(merged, path)
                      /\ KeysAt(merged, path) = KeysAt(default, path) \cup KeysAt(stored, path)
             /\ (s # <<>> /\ ~(IsDictAt(default, path) /\ IsDictAt(stored, path)))
                   => m = s
             /\ (s = <<>> /\ d # <<>> /\ ~ReplacedAbove(stored, path)) => m = d
             /\ (s = <<>> /\ d = <<>>) => m = <<>>

\* C21: what a load makes of a default and a file that loads is their deep
\* merge: a path only the default has keeps the default's value, a path the
\* file has holds the file's value unless both values are dicts, and where
\* both are dicts the result is a dict of the keys of both, merged in the
\* same way, down to the embed of a category.  A path of the default below a
\* value the file replaced by a leaf is part of the replaced value.
C21_DeepMerge ==
    merging.pc \in {"loaded", "reloaded"}
       => MergedAsStated(merging.default, merging.file, merging.config)

\* a loaded configuration whose category kept the default's name beside an
\* embed whose title came from the file, both sides having the embed
C21_Witness ==
    /\ merging.pc = "loaded"
    /\ IsDictAt(merging.default, <<"categories", "support", "embed">>)
    /\ IsDictAt(merging.file, <<"categories", "support", "embed">>)
    /\ Lookup(merging.file, <<"categories", "support", "name">>) = <<>>
    /\ Lookup(merging.config, <<"categories", "support", "name">>) = <<Leaf(DefaultLeaf)>>
    /\ Lookup(merging.config, <<"categories", "support", "embed", "title">>)
          = <<Leaf(StoredLeaf)>>
    /\ Lookup(merging.config, <<"max_tickets_per_user">>) = <<Leaf(DefaultLeaf)>>

\* the category ids of a configuration
CategoryKeys(config) ==
    IF IsDictAt(config, <<"categories">>) THEN KeysAt(config, <<"categories">>) ELSE {}

\* C22: a load, a save of what was loaded and a second load give the
\* categories of the first load: the same ids with the same contents.
C22_LoadSaveLoad ==
    merging.pc = "reloaded"
       => /\ CategoryKeys(merging.config) = CategoryKeys(merging.first)
          /\ Lookup(merging.config, <<"categories">>) = Lookup(merging.first, <<"categories">>)

\* the second load of a file whose category the first load completed from
\* the default
C22_Witness ==
    /\ merging.pc = "reloaded"
    /\ CategoryKeys(merging.config) = {"support"}
    /\ Lookup(merging.config, <<"categories", "support", "name">>) = <<Leaf(StoredLeaf)>>
    /\ Lookup(merging.config, <<"categories", "support", "embed", "title">>)
          = <<Leaf(DefaultLeaf)>>

\* C23: a submitted category form whose id is among the categories stored
\* for the guild at that moment changes nothing stored, whoever added the id
\* and whenever the form was opened.
C23_DuplicateIdRejected ==
    [][\A d \in DOMAIN dialogs, cat_id \in FormCategoryIds, name \in FormCategoryNames :
          (/\ CategoryCreateSubmit(d, cat_id, name)
           /\ cat_id \in CategoryIds(CurrentCategories(dialogs[d].guild)))
          => configFiles' = configFiles]_vars

\* C24: no guild's configuration ever holds more than 25 categories, and a
\* category form submitted while the guild's stored configuration holds 25
\* changes nothing stored.
C24_AtMostMaxCategories ==
    [][/\ \A g \in Guilds : Len(CurrentCategories(g))' <= MaxCategories
       /\ \A d \in DOMAIN dialogs, cat_id \in FormCategoryIds, name \in FormCategoryNames :
             (/\ CategoryCreateSubmit(d, cat_id, name)
              /\ Len(CurrentCategories(dialogs[d].guild)) >= MaxCategories)
             => configFiles' = configFiles]_vars

\* C25: once the removal of a category is confirmed and written, a load of
\* the guild's configuration does not contain the category, a built-in one
\* included.
C25_RemovedStaysRemoved ==
    [][\A d \in DOMAIN dialogs :
          (ConfirmDelete(d) /\ confirm_delete(dialogs[d].config, dialogs[d].category).saved)
          => dialogs[d].category \notin CategoryIds(CurrentCategories(dialogs[d].guild)')]_vars

\* C26: a confirmed removal of a category that the guild's stored
\* configuration no longer holds is answered "not found" and changes nothing
\* stored.
C26_RemoveMissingIsNoOp ==
    [][\A d \in DOMAIN dialogs :
          (/\ ConfirmDelete(d)
           /\ dialogs[d].category \notin CategoryIds(CurrentCategories(dialogs[d].guild)))
          => /\ confirm_delete(dialogs[d].config, dialogs[d].category).reply = "not_found"
             /\ configFiles' = configFiles]_vars

\* C28: a form or confirmation writes the configuration it loaded when it was
\* opened, with its own change: whatever another command stored for the guild
\* while it was open is gone afterwards, the limit of tickets included.
C28_LaterWriteWins ==
    [][/\ \A d \in DOMAIN dialogs, cat_id \in FormCategoryIds, name \in FormCategoryNames :
             (/\ CategoryCreateSubmit(d, cat_id, name)
              /\ cat_id \notin CategoryIds(dialogs[d].config.categories))
             => /\ configFiles'[dialogs[d].guild].max_tickets_per_user
                      = dialogs[d].config.max_tickets_per_user
                /\ CategoryIds(configFiles'[dialogs[d].guild].categories)
                      = CategoryIds(dialogs[d].config.categories) \cup {cat_id}
       /\ \A d \in DOMAIN dialogs :
             (ConfirmDelete(d) /\ confirm_delete(dialogs[d].config, dialogs[d].category).saved)
             => /\ configFiles'[dialogs[d].guild].max_tickets_per_user
                      = dialogs[d].config.max_tickets_per_user
                /\ CategoryIds(configFiles'[dialogs[d].guild].categories)
                      = CategoryIds(dialogs[d].config.categories) \ {dialogs[d].category}]_vars

\* the limit of a guild was lowered while a category form was open, and the
\* form's submission has put the old limit back with its new category
C28_Witness ==
    \E g \in ActiveGuilds :
       /\ g \in lowered
       /\ configFiles[g].max_tickets_per_user = FullConfig.max_tickets_per_user
       /\ CategoryIds(configFiles[g].categories) \cap FormCategoryIds # {}


\* C27: the close control and the add-participant control decide on the
\* staff roles stored when they are clicked: a member who is owner,
\* administrator or holder of a role configured now gets the prompt or the
\* grant, and any other member gets neither, whatever the roles were when
\* the ticket's control message was made.
C27_ControlsUseStoredConfig ==
    [][\A u \in Users, ch \in ActiveChannels :
          LET g == channels[ch].guild
          IN /\ \A p \in Prompts :
                   CloseTicketButton(p, u, ch)
                      => (prompts'[p].pc = "open" <=> Authorized(u, ch, g))
             /\ \A member \in Mentioned :
                   AddUser(u, ch, member)
                      => /\ Authorized(u, ch, g) => member \in channels'[ch].users
                         /\ ~Authorized(u, ch, g) => channels' = channels]_vars


\* a numeric parameter of /ticket-settings is out of range
OutOfRange(args) ==
    \/ args.max_tickets # <<>> /\ ~(1 <= args.max_tickets[1] /\ args.max_tickets[1] <= 10)
    \/ args.auto_close_hours # <<>> /\ args.auto_close_hours[1] < 0

\* C29: /ticket-settings with max_tickets outside 1..10 or a negative
\* auto_close_hours leaves the guild's configuration as it was, whatever other
\* parameters it carries, and the limit the command stores is always within
\* 1..10.
C29_OutOfRangeRejected ==
    [][\A u \in Admins, g \in ActiveGuilds :
          \A args \in SettingsInputs(g), restart \in {"started", "RuntimeError"} :
             TicketSettings(u, g, args, restart)
                => /\ OutOfRange(args)
                         => LoadConfig(configFiles', g) = LoadConfig(configFiles, g)
                   /\ LoadConfig(configFiles', g).max_tickets_per_user \in 1..10]_vars


\* C30: in the add-participant flow no member is granted access by the wait
\* or by the parse of the reply; a wait that ends without a message, a reply
\* without words, a reply whose parse fails and a reply without an id end
\* the flow with the channel's members as they were; members are granted
\* access only afterwards, one by one, from the list the parse of the whole
\* reply produced.
C30_ParsedBeforeGranted ==
    [][/\ \A a \in Adders :
             /\ AddUserTimeout(a) => channels' = channels /\ adds'[a].pc = "none"
             /\ \A words \in Replies :
                   AddUserReply(a, words)
                      => /\ channels' = channels
                         /\ (\/ words = <<>>
                             \/ parse_user_ids(words, <<>>).error
                             \/ parse_user_ids(words, <<>>).user_ids = <<>>)
                               => adds'[a].pc = "none"
                         /\ adds'[a].pc = "granting"
                               => adds'[a].user_ids = parse_user_ids(words, <<>>).user_ids
       /\ \A ch \in ActiveChannels :
             ~(channels'[ch].users \subseteq channels[ch].users)
                => \E a \in Adders :
                      /\ adds[a].pc = "granting"
                      /\ adds[a].channel = ch
                      /\ channels'[ch].users
                            = channels[ch].users
                                 \cup {get_member(adds[a].user_ids[
                                          Len(adds[a].added) + Len(adds[a].failed) + 1])[1]}]_vars

\* a reply that failed to parse has ended the flow, and the member whom an
\* earlier word of the reply could have named is not in the channel
C30_Witness ==
    \E a \in Adders, ch \in ActiveChannels :
       /\ adds[a].pc = "none"
       /\ adds[a].reply = "error"
       /\ channels[ch].alive
       /\ "bob" \notin channels[ch].users


\* C31: when the wait for the member's message of the add-participant flow
\* ends without a message, the flow ends with the timeout notice sent to the
\* member who clicked.
C31_TimeoutNoticeSent ==
    [][\A a \in Adders :
          AddUserTimeout(a) => adds'[a].reply = "add_user_timeout"]_vars


\* the id a word names: the number its digits spell
NamedId(word) == int(SelectSeq(word, LAMBDA c : isdigit(<<c>>)))
\* the reply is made of mentions of members and of numbers
MadeOfIds(words) ==
    /\ words # <<>>
    /\ \A i \in DOMAIN words :
          \/ isdigit(words[i])
          \/ /\ Len(words[i]) >= 4
             /\ words[i][1] = "<"
             /\ words[i][2] = "@"
             /\ words[i][Len(words[i])] = ">"
             /\ \A k \in 3..(Len(words[i]) - 1) :
                   words[i][k] = "!" \/ isdigit(<<words[i][k]>>)
             /\ \E k \in 3..(Len(words[i]) - 1) : isdigit(<<words[i][k]>>)
\* ids lists the wanted ids the words name, once each, in the order of their
\* first occurrence
FirstOccurrences(words, wanted, ids) ==
    LET first(id) == CHOOSE i \in DOMAIN words :
                        /\ NamedId(words[i]) = id
                        /\ \A k \in 1..(i - 1) : NamedId(words[k]) # id
    IN /\ {ids[i] : i \in DOMAIN ids} = {NamedId(words[i]) : i \in DOMAIN words} \cap wanted
       /\ \A i, k \in DOMAIN ids : i < k => first(ids[i]) < first(ids[k])
\* every id of the list was handled: a member's grant was made or raised, any
\* other id is recorded as not on the server
EachIdHandled(add) ==
    /\ Len(add.added) + Len(add.failed) = Len(add.user_ids)
    /\ \A i \in DOMAIN add.user_ids :
          LET user_id == add.user_ids[i]
              isAdded == \E k \in DOMAIN add.added : <<add.added[k]>> = get_member(user_id)
              failedAs(reason) == \E k \in DOMAIN add.failed :
                                     add.failed[k] = [user_id |-> user_id, reason |-> reason]
          IN IF get_member(user_id) = <<>>
             THEN failedAs("nicht auf Server") /\ ~isAdded
             ELSE isAdded # failedAs("Fehler")
    /\ channels[add.channel].alive
          => \A k \in DOMAIN add.added : add.added[k] \in channels[add.channel].users

\* C32: a reply made of mentions and numbers gives the list of the ids it
\* names other than 0, once each in the order of first occurrence (the flow
\* ends there when it names none); when the loop is over, every id of the
\* list that is a member's was granted access or its grant raised, every
\* other id is recorded as failed, whatever happened to the ids before it;
\* the lists are what the member is sent, unless the channel was deleted
\* after a grant, when the announcement in it fails and the member is sent
\* the general error.
C32_EachIdGrantedOrReported ==
    [][\A a \in Adders :
          /\ \A words \in Replies :
                (AddUserReply(a, words) /\ MadeOfIds(words))
                   => IF \E i \in DOMAIN words : NamedId(words[i]) # 0
                      THEN /\ adds'[a].pc = "granting"
                           /\ FirstOccurrences(words, Nat \ {0}, adds'[a].user_ids)
                      ELSE adds'[a].reply = "add_user_invalid"
          /\ AddUserReport(a)
                => /\ EachIdHandled(adds[a])
                   /\ IF adds[a].added # <<>> /\ ~channels[adds[a].channel].alive
                      THEN adds'[a].reply = "error"
                      ELSE /\ adds'[a].reply = "added"
                           /\ adds'[a].added = adds[a].added
                           /\ adds'[a].failed = adds[a].failed]_vars

\* the loop is over for a list of two ids: the first is no member's and is
\* recorded as failed, the second is a member's and was granted access
C32_Witness ==
    \E a \in Adders :
       /\ adds[a].pc = "reporting"
       /\ Len(adds[a].user_ids) = 2
       /\ get_member(adds[a].user_ids[1]) = <<>>
       /\ adds[a].added = get_member(adds[a].user_ids[2])
       /\ adds[a].added # <<>>
       /\ adds[a].added[1] \in channels[adds[a].channel].users

\* C32 as stated: every id the reply names is listed, and every listed id is
\* granted access or reported to the member as failed
C32_AsStated ==
    [][\A a \in Adders :
          /\ \A words \in Replies :
                (AddUserReply(a, words) /\ MadeOfIds(words))
                   => /\ adds'[a].pc = "granting"
                      /\ FirstOccurrences(words, Nat, adds'[a].user_ids)
          /\ AddUserReport(a)
                => /\ EachIdHandled(adds[a])
                   /\ adds'[a].reply = "added"
                   /\ adds'[a].added = adds[a].added
                   /\ adds'[a].failed = adds[a].failed]_vars


\* C33: a click on the transcript control, whether it is refused because
\* transcripts are disabled or the member has no permission, or the
\* transcript is sent, or reading the history fails, leaves the tickets, the
\* panels, every guild's configuration file and the default as they were.
C33_TranscriptChangesNothing ==
    [][\A u \in Users, ch \in ActiveChannels, outcome \in {"sent", "error"} :
          CreateTranscript(u, ch, outcome)
             => UNCHANGED << tickets, panels, configFiles, DEFAULT_CONFIG >>]_vars

\* a transcript was sent for a ticket that is being closed: its entry is
\* gone, its channel still there
C33_Witness ==
    /\ response.op = "create_transcript"
    /\ response.reply = "sent"
    /\ channels[response.at].alive
    /\ ~is_ticket(tickets, response.at, channels[response.at].guild)


\* C34: whatever is done in one guild (settings on a configuration loaded
\* for the first time, a panel, tickets), another guild's loaded
\* configuration, the default a first load starts from, and the other
\* guild's tickets and panel stay as they were.
C34_GuildsIsolated ==
    [][\A other \in Guilds \ ActiveGuilds :
          /\ LoadConfig(configFiles, other)' = LoadConfig(configFiles, other)
          /\ DEFAULT_CONFIG' = DEFAULT_CONFIG
          /\ GuildTickets(tickets, other)' = GuildTickets(tickets, other)
          /\ (other \in DOMAIN panels)' = (other \in DOMAIN panels)
          /\ other \in DOMAIN panels => panels'[other] = panels[other]]_vars


\* C35: when /ticket-panel-refresh or /ticket-panel-restore finds the stored
\* panel message gone (NotFound), the guild's panel record is removed; the
\* refresh command tells the admin that it was.
C35_StalePanelPruned ==
    [][\A u \in Admins, g \in Guilds :
          g \in DOMAIN panels
             => /\ RefreshPanel(u, g, "NotFound")
                   => g \notin DOMAIN panels' /\ response'.reply = "removed"
                /\ RestorePanelsManual(u, g, "NotFound") => g \notin DOMAIN panels']_vars


\* C36: /ticket-setup leaves the guild with the record of the panel message
\* it has just posted, whatever record the guild had, and leaves the other
\* guilds' records alone; get_panel returns the record stored last; removing
\* the panel of a guild that has none leaves the registry as it was.
C36_OnePanelLastWriteWins ==
    [][/\ \A g \in Guilds : get_panel(panels, g) = <<>> => remove_panel(panels, g) = panels
       /\ \A u \in Admins, g \in ActiveGuilds :
             SetupPanel(u, g)
                => /\ get_panel(panels', g)
                         = << [channel_id |-> "lobby",
                               message_id |-> <<"panel", adminOps + 1>>] >>
                   /\ \A other \in Guilds \ {g} :
                         get_panel(panels', other) = get_panel(panels, other)]_vars

\* the guild's record is that of the second panel posted in this run
C36_Witness ==
    /\ adminOps = 2
    /\ get_panel(panels, "g1") # <<>>
    /\ get_panel(panels, "g1")[1].message_id = <<"panel", 2>>


\* the buttons of a view are those of the categories stored now, in order
ButtonsOfStored(buttons, g) ==
    LET categories == LoadConfig(configFiles, g).categories
    IN /\ Len(buttons) = Len(categories)
       /\ \A i \in 1..Len(categories) : buttons[i] = <<"ticket_create_">> \o categories[i].id

\* C37: the view /ticket-setup, /ticket-panel-refresh and
\* /ticket-panel-restore put on a panel message has one button per category
\* of the configuration stored at that time, in the order of the
\* configuration, each with the custom id made of the prefix and the
\* category's id, whatever the categories were when an earlier view was
\* built.
C37_ButtonsOfCurrentCategories ==
    [][\A u \in Admins, g \in Guilds :
          LET built == \/ SetupPanel(u, g)
                       \/ RefreshPanel(u, g, "ok") /\ get_panel(panels, g) # <<>>
                       \/ RestorePanelsManual(u, g, "ok") /\ get_panel(panels, g) # <<>>
              buttons == create_buttons(configFiles, g)
          IN built => /\ ButtonsOfStored(buttons, g)
                      /\ panelButtons'[g]
                            = panelButtons[g] \cup {buttons[i] : i \in DOMAIN buttons}]_vars

\* a refresh has given the panel the button of a category that was added
\* after the guild's earlier panel was posted
C37_Witness ==
    \E g \in ActiveGuilds, id \in FormCategoryIds :
       /\ response.op = "refresh_panel"
       /\ response.reply = "refreshed"
       /\ CustomId(id) \in panelButtons[g]
       /\ id \notin CategoryIds(StoredConfig(2).categories)


\* C38: a run of the restoration that finds every panel message and reaches
\* a ticket's control message binds a control view to it whose category is
\* the first category, in the order of the configuration, named as the
\* ticket's stored Type, and "support" when no category has that name.
C38_CategoryByFirstNameMatch ==
    [][\A order \in Orders(DOMAIN panels),
          w \in [guilds : {Guilds}, panel : {[g \in Guilds |-> "ok"]},
                 control : [StoredChannels -> ControlOutcomes]] :
          RestorePersistentViews(order, w)
             => \A g \in w.guilds, ch \in StoredChannels :
                   (/\ is_ticket(tickets, ch, g)
                    /\ tickets[g][ch].control_message_id # <<>>
                    /\ channels[ch].alive
                    /\ w.control[ch] = "ok")
                   => LET categories == LoadConfig(configFiles, g).categories
                          named == {i \in DOMAIN categories :
                                       categories[i].name = tickets[g][ch].Type}
                      IN /\ ch \in DOMAIN controlViews'
                         /\ controlViews'[ch].category =
                               IF named = {} THEN <<"support">>
                               ELSE categories[CHOOSE i \in named :
                                                 \A k \in named : i <= k].id]_vars

\* a ticket of a category that is gone has its control view, of category
\* "support"; elsewhere a ticket of a name two categories have has the view
\* of the first
C38_Witness ==
    \E ch \in DOMAIN controlViews :
       /\ tickets[controlViews[ch].guild_id][ch].Type = "Gone"
       /\ controlViews[ch].category = <<"support">>


\* C39: create_ticket puts the record at (guild, channel), in place of the
\* one that was there, and touches no other key; kill_ticket removes the
\* record and returns True when there was one, and returns False and changes
\* nothing when there was none; add_control_message_to_ticket on a channel
\* without record returns False and changes nothing.
C39_RegistryPrimitives ==
    [][\A op \in {"create_ticket", "kill_ticket", "add_control_message_to_ticket"},
          ch \in StoredChannels, g \in Guilds,
          message_id \in {NoMessage, <<"message", 0>>} :
          RegistryCall(op, ch, "bob", g, "Support", message_id)
             => LET had == g \in DOMAIN tickets /\ ch \in DOMAIN tickets[g]
                    OthersKept ==
                       \A h \in Guilds, c \in StoredChannels :
                          (<<h, c>> # <<g, ch>> /\ h \in DOMAIN tickets
                              /\ c \in DOMAIN tickets[h])
                          => (h \in DOMAIN tickets' /\ c \in DOMAIN tickets'[h]
                                 /\ tickets'[h][c] = tickets[h][c])
                    NoneAdded ==
                       \A h \in DOMAIN tickets' : \A c \in DOMAIN tickets'[h] :
                          <<h, c>> # <<g, ch>>
                             => (h \in DOMAIN tickets /\ c \in DOMAIN tickets[h])
                IN CASE op = "create_ticket" ->
                          /\ g \in DOMAIN tickets' /\ ch \in DOMAIN tickets'[g]
                          /\ tickets'[g][ch] = [Owner_ID |-> "bob", Type |-> "Support",
                                                control_message_id |-> <<>>]
                          /\ OthersKept /\ NoneAdded
                          /\ response'.reply = "True"
                     [] op = "kill_ticket" ->
                          IF had
                          THEN /\ ch \notin DOMAIN tickets'[g]
                               /\ OthersKept /\ NoneAdded
                               /\ response'.reply = "True"
                          ELSE tickets' = tickets /\ response'.reply = "False"
                     [] op = "add_control_message_to_ticket" ->
                          ~had => (tickets' = tickets /\ response'.reply = "False")]_vars

\* kill_ticket has found no record at a channel of a guild that has the
\* record, with its control message, of another channel
C39_Witness ==
    /\ response.op = "kill_ticket"
    /\ response.reply = "False"
    /\ \E g \in DOMAIN tickets : \E c \in DOMAIN tickets[g] :
          /\ c # response.at
          /\ response.at \notin DOMAIN tickets[g]
          /\ tickets[g][c].control_message_id # <<>>


\* C40: a run of the auto-close loop, at any hour and whatever hours the
\* guilds have configured, removes no ticket from the registry, changes no
\* record of it and leaves every channel as it was.
C40_AutoCloseClosesNothing ==
    [][\A gs \in SUBSET Guilds, now \in {1, 12, 13, 30} :
          AutoCloseTickets(gs, now) => (tickets' = tickets /\ channels' = channels)]_vars

\* a run was made at an hour when a ticket is older than the hours of its
\* guild, and the ticket and its channel are still there
C40_Witness ==
    /\ response.op = "auto_close_tickets"
    /\ \E g \in Guilds, ch \in DOMAIN channels :
          /\ LoadConfig(configFiles, g).auto_close_time > 0
          /\ response.at - LoadConfig(configFiles, g).auto_close_time > 0
          /\ is_ticket(tickets, ch, g)
          /\ channels[ch].alive

====
